---- MODULE Spec2Model ----
(* A model of the cron engine of src/cron.go: the Cron struct, its public  *)
(* operations (Schedule, Remove, Entries, Start, Run, Stop), the            *)
(* coordinating loop Cron.run and the goroutines started by startJob.       *)
(* Time is counted in whole seconds; the zero time.Time is ZeroTime.        *)
EXTENDS Integers, Sequences, FiniteSets, TLC

\* ---------------------------------------------------------------- bounds
NumProcs == 2       \* goroutines calling the public operations
MaxID    == 2       \* Schedule calls made in one behaviour
MaxTime  == 3       \* last instant the wall clock reaches
MaxDelay == 2       \* longest Every(d) delay registered, in seconds
MaxLoops == 2       \* stopped -> running transitions in one behaviour
MaxStops == 2       \* Stop calls made in one behaviour
MaxChain == 2       \* longest decorator list given to NewChain
NumCtx   == 2       \* goroutines invoking one wrapped job
MaxCalls == 2       \* invocations of the wrapped job by one goroutine

Procs  == 1..NumProcs
Ctxs   == 1..NumCtx
Frames == 1..(MaxChain + 1)
Scheds == 0..MaxDelay

\* ------------------------------------------------------------- constants
ZeroTime == 0       \* time.Time{}: IsZero() holds of it only
Never    == 0       \* a schedule whose Next finds no instant (returns zero)
Far      == 0       \* timer armed with the 100000 hour sentinel
Free     == 0       \* runningMu not held
NoOwner  == 0       \* loop launched by Start with "go c.run()"
Second   == 4       \* time.Second, in quarter seconds
starBit  == 63      \* the bit of "1 << 63"
HorizonYears == 5   \* "yearLimit := t.Year() + 5"

VARIABLES
    entries,      \* c.entries: sequence of [id, sched, next, prev]
    running,      \* c.running
    runningMu,    \* holder of c.runningMu, or Free
    nextID,       \* c.nextID
    pc,           \* position of each calling goroutine
    arg,          \* the entry / id the caller is handing over
    loops,        \* every invocation of c.run(), in launch order: its
                  \* position, the deadline of its timer, the message it
                  \* received, and the "now" it received from timer.C (in
                  \* run() every read of now follows an assignment made in
                  \* the same handler, so no other value of it is kept)
    clock,        \* wall clock (time.Now())
    jobWaiter,    \* goroutines of startJob still running, as <<id, fired Next>>
    stops,        \* one record per context returned by Stop
    reply,        \* replyChan / the result of Entries before it is returned
    issued,       \* history: IDs in the order Schedule allocated them
    returned,     \* history: IDs whose Schedule call has returned
    removed,      \* history: IDs whose Remove call has returned
    lastDispatch, \* history: IDs dispatched by the latest timer case, in order
    held          \* the list the latest Entries call returned, in its caller's hands

\* the state of one wrapped job (chain.go)
VARIABLES
    wrappers,     \* Chain.wrappers: the decorator list given to NewChain
    job,          \* the Job built by Then: its frames, outermost first
    mu,           \* mu[i]: holder of the mutex of a DelayIfStillRunning frame
    ch,           \* ch[i]: tokens in the channel of a SkipIfStillRunning frame
    ctx           \* ctx[c]: the invocation goroutine c is in

\* one call of Schedule.Next (cron.go, constantdelay)
VARIABLES
    schedule,     \* the receiver: a SpecSchedule or a ConstantDelaySchedule
    instant,      \* the argument t
    tcur,         \* the local t of SpecSchedule.Next; the result at the end
    added,        \* the flag "added"
    yearLimit,    \* the local yearLimit
    label         \* where the call is: a label of SpecSchedule.Next

\* one call of AddJob and of the Parse it makes (parser)
VARIABLES
    parser,       \* Parser.options of c.parser
    input,        \* the argument spec of AddJob
    spec,         \* the local spec of Parse, after the time zone is taken off
    loc,          \* the local loc of Parse
    perr,         \* the error Parse returns, "nil" for none
    psched,       \* the Schedule Parse returns
    ppc,          \* where the call is
    addID         \* the EntryID AddJob returned

engineVars == <<entries, running, runningMu, nextID, pc, arg, loops, clock,
                jobWaiter, stops, reply, issued, returned, removed, lastDispatch,
                held>>

chainVars == <<wrappers, job, mu, ch, ctx>>

schedVars == <<schedule, instant, tcur, added, yearLimit, label>>

parseVars == <<parser, input, spec, loc, perr, psched, ppc, addID>>

\* what the engine's operations leave alone
others == <<chainVars, schedVars, parseVars, held>>

vars == <<engineVars, others>>

NoArg   == [id |-> 0, sched |-> Never]
NoReply == [full |-> FALSE, val |-> <<>>]

Max(a, b) == IF a >= b THEN a ELSE b

\* ------------------------------------------------------------- schedules
\* Schedule.Next: Every(d).Next(t) = t + d on whole seconds; a SpecSchedule
\* with no satisfying instant returns the zero time.
ScheduleNext(sched, t) == IF sched = Never THEN ZeroTime ELSE t + sched

\* --------------------------------------------------------------- entries
NewEntry(id, sched) == [id |-> id, sched |-> sched, next |-> ZeroTime, prev |-> ZeroTime]

IsZero(t) == t = ZeroTime

\* the instants compared with Before alone, the zero time being the earliest
LessBefore(a, b) == a.next < b.next

\* byTime.Less on two entries
Less(a, b) ==
    IF IsZero(a.next) THEN FALSE
    ELSE IF IsZero(b.next) THEN TRUE
    ELSE a.next < b.next

IsPermutation(s, t) ==
    /\ Len(s) = Len(t)
    /\ \A i \in 1..Len(s) : \E j \in 1..Len(t) : t[j] = s[i]
    /\ \A i \in 1..Len(t) : \E j \in 1..Len(s) : s[j] = t[i]

IsSorted(s) == \A i, j \in 1..Len(s) : i < j => ~Less(s[j], s[i])

\* the list is left as it is
SortByTimeNone(s) == {s}

\* sort.Sort(byTime(c.entries)): some ordering of the same entries that is
\* ascending under Less; sort.Sort does not promise which one among equals.
SortByTime(s) ==
    { t \in [1..Len(s) -> {s[i] : i \in 1..Len(s)}] : IsPermutation(s, t) /\ IsSorted(t) }

\* the filter keeps every entry
removeEntryNone(s, id) == s

\* c.removeEntry(id)
removeEntry(s, id) == SelectSeq(s, LAMBDA e : e.id # id)

\* an element that would be the engine's own *Entry, "entries[i] = e"
entrySnapshotElemShared(e) ==
    [id |-> e.id, sched |-> e.sched, next |-> e.next, prev |-> e.prev, ptr |-> TRUE]

\* an element of the list Entries returns: a value of type Entry,
\* "entries[i] = *e"
entrySnapshotElem(e) == e

\* c.entrySnapshot(): a value copy of every entry
entrySnapshot(s) == [i \in 1..Len(s) |-> entrySnapshotElem(s[i])]

IDs(s) == {s[i].id : i \in 1..Len(s)}

\* ----------------------------------------------------------------- Init
\* no invocation: the goroutine is outside job.Run()
IdleCtx == [pc |-> "idle", depth |-> 0, calls |-> 0, fault |-> "none", trace |-> <<>>]

\* no chain has been built
ChainUnused ==
    /\ wrappers = <<>>
    /\ job = <<>>
    /\ mu = [i \in Frames |-> Free]
    /\ ch = [i \in Frames |-> 0]
    /\ ctx = [c \in Ctxs |-> IdleCtx]

\* no call of Next
SchedUnused ==
    /\ schedule = <<>>
    /\ instant = <<>>
    /\ tcur = <<>>
    /\ added = FALSE
    /\ yearLimit = 0
    /\ label = "unused"

\* time.Local
Local == <<"L", "o", "c", "a", "l">>

\* no Schedule returned
NoSchedule == [type |-> "none"]

\* no call of AddJob
ParseUnused ==
    /\ parser = {}
    /\ input = <<>>
    /\ spec = <<>>
    /\ loc = Local
    /\ perr = "nil"
    /\ psched = NoSchedule
    /\ ppc = "unused"
    /\ addID = 0

EngineInit ==
    /\ entries = <<>>
    /\ running = FALSE
    /\ runningMu = Free
    /\ nextID = 0
    /\ pc = [p \in Procs |-> "idle"]
    /\ arg = [p \in Procs |-> NoArg]
    /\ loops = <<>>
    /\ clock = 1
    /\ jobWaiter = {}
    /\ stops = <<>>
    /\ reply = NoReply
    /\ issued = <<>>
    /\ returned = {}
    /\ removed = {}
    /\ lastDispatch = <<>>
    /\ held = <<>>

Init == EngineInit /\ ChainUnused /\ SchedUnused /\ ParseUnused

\* time passes
Tick ==
    /\ clock < MaxTime
    /\ clock' = clock + 1
    /\ UNCHANGED <<entries, running, runningMu, nextID, pc, arg, loops,
                   jobWaiter, stops, reply, issued, returned, removed, lastDispatch>>
    /\ UNCHANGED others

\* ------------------------------------------------------------ helpers
Unlock == runningMu' = Free

Loop(l) == loops[l]
LoopIDs == 1..Len(loops)

\* a fresh invocation of c.run()
NewLoop(owner) == [pc |-> "start", now |-> ZeroTime, timer |-> Far, owner |-> owner, msg |-> NoArg]

\* the ID read before the increment
EntryIDBeforeIncr(n) == n

\* Schedule: c.nextID++ followed by ID: c.nextID
EntryIDOf(n) == n + 1

\* the timer armed at the top of an iteration: time.NewTimer(d) fires d after
\* its creation; Far is the 100000 hour sentinel
ArmTimer(es, now, clk) ==
    IF Len(es) = 0 \/ IsZero(es[1].next) THEN Far
    ELSE clk + Max(0, es[1].next - now)

\* "break" out of the select and the top of the next iteration of run():
\* sort.Sort(byTime(c.entries)), arm the timer, wait in the select
Iterate(l, es, now) ==
    \E t \in SortByTime(es) :
        /\ entries' = t
        /\ loops' = [loops EXCEPT ![l] = [Loop(l) EXCEPT !.pc = "select", !.now = ZeroTime,
                        !.timer = ArmTimer(t, now, clock), !.msg = NoArg]]

\* ------------------------------------------------------------ Schedule
\* Schedule on a stopped engine: Lock, c.nextID++, append, Unlock, return ID
ScheduleDirect(p, s) ==
    /\ pc[p] = "idle"
    /\ runningMu = Free
    /\ nextID < MaxID
    /\ ~running
    /\ nextID' = nextID + 1
    /\ issued' = Append(issued, EntryIDOf(nextID))
    /\ entries' = Append(entries, NewEntry(EntryIDOf(nextID), s))
    /\ returned' = returned \cup {EntryIDOf(nextID)}
    /\ UNCHANGED <<running, runningMu, pc, arg, loops, clock, jobWaiter, stops,
                   reply, removed, lastDispatch>>
    /\ UNCHANGED others

\* Schedule on a running engine: Lock, c.nextID++, then blocked in
\* "c.add <- entry" with the lock held
ScheduleLock(p, s) ==
    /\ pc[p] = "idle"
    /\ runningMu = Free
    /\ nextID < MaxID
    /\ running
    /\ runningMu' = p
    /\ nextID' = nextID + 1
    /\ issued' = Append(issued, EntryIDOf(nextID))
    /\ arg' = [arg EXCEPT ![p] = [id |-> EntryIDOf(nextID), sched |-> s]]
    /\ pc' = [pc EXCEPT ![p] = "schedule"]
    /\ UNCHANGED <<entries, running, loops, clock, jobWaiter, stops, reply,
                   returned, removed, lastDispatch>>
    /\ UNCHANGED others

\* "c.add <- entry" meets "case newEntry := <-c.add"; the caller unlocks and
\* returns the ID
LoopRecvAdd(l, p) ==
    /\ pc[p] = "schedule"
    /\ Loop(l).pc = "select"
    /\ loops' = [loops EXCEPT ![l] = [Loop(l) EXCEPT !.pc = "add", !.msg = arg[p]]]
    /\ returned' = returned \cup {arg[p].id}
    /\ Unlock
    /\ pc' = [pc EXCEPT ![p] = "idle"]
    /\ arg' = [arg EXCEPT ![p] = NoArg]
    /\ UNCHANGED <<entries, running, nextID, clock, jobWaiter, stops, reply,
                   issued, removed, lastDispatch>>
    /\ UNCHANGED others

\* the new entry replaces the list instead of being appended to it
AddEntryOverwrite(es, m, now) ==
    <<[NewEntry(m.id, m.sched) EXCEPT !.next = ScheduleNext(m.sched, now)]>>

\* the add case of run(): c.entries after the append
AddEntry(es, m, now) ==
    Append(es, [NewEntry(m.id, m.sched) EXCEPT !.next = ScheduleNext(m.sched, now)])

\* the add case going back to the select with the timer it had: the new
\* entry is appended and sorted in, no timer is armed for it
LoopAddKeepsTimer(l) ==
    /\ Loop(l).pc = "add"
    /\ \E t \in SortByTime(AddEntry(entries, Loop(l).msg, clock)) :
        /\ entries' = t
        /\ loops' = [loops EXCEPT ![l] = [Loop(l) EXCEPT !.pc = "select", !.msg = NoArg]]
    /\ UNCHANGED <<running, runningMu, nextID, pc, arg, clock, jobWaiter, stops,
                   reply, issued, returned, removed, lastDispatch>>
    /\ UNCHANGED others

\* the add case of run(): timer.Stop(), now = c.now(), compute Next, append;
\* then the next iteration
LoopAdd(l) ==
    /\ Loop(l).pc = "add"
    /\ Iterate(l, AddEntry(entries, Loop(l).msg, clock), clock)
    /\ UNCHANGED <<running, runningMu, nextID, pc, arg, clock, jobWaiter, stops,
                   reply, issued, returned, removed, lastDispatch>>
    /\ UNCHANGED others

\* -------------------------------------------------------------- Remove
\* Remove on a stopped engine: Lock, c.removeEntry(id), Unlock
RemoveDirect(p, id) ==
    /\ pc[p] = "idle"
    /\ runningMu = Free
    /\ ~running
    /\ entries' = removeEntry(entries, id)
    /\ removed' = removed \cup ({id} \cap returned)
    /\ UNCHANGED <<running, runningMu, nextID, pc, arg, loops, clock, jobWaiter,
                   stops, reply, issued, returned, lastDispatch>>
    /\ UNCHANGED others

\* Remove on a running engine: Lock, then blocked in "c.remove <- id"
RemoveLock(p, id) ==
    /\ pc[p] = "idle"
    /\ runningMu = Free
    /\ running
    /\ runningMu' = p
    /\ arg' = [arg EXCEPT ![p] = [id |-> id, sched |-> Never]]
    /\ pc' = [pc EXCEPT ![p] = "remove"]
    /\ UNCHANGED <<entries, running, nextID, loops, clock, jobWaiter, stops, reply,
                   issued, returned, removed, lastDispatch>>
    /\ UNCHANGED others

\* "c.remove <- id" meets "case id := <-c.remove"; the caller unlocks, returns
LoopRecvRemove(l, p) ==
    /\ pc[p] = "remove"
    /\ Loop(l).pc = "select"
    /\ loops' = [loops EXCEPT ![l] = [Loop(l) EXCEPT !.pc = "remove", !.msg = arg[p]]]
    /\ removed' = removed \cup ({arg[p].id} \cap returned)
    /\ Unlock
    /\ pc' = [pc EXCEPT ![p] = "idle"]
    /\ arg' = [arg EXCEPT ![p] = NoArg]
    /\ UNCHANGED <<entries, running, nextID, clock, jobWaiter, stops, reply,
                   issued, returned, lastDispatch>>
    /\ UNCHANGED others

\* the remove case of run(): timer.Stop(), now = c.now(), c.removeEntry(id);
\* then the next iteration
LoopRemove(l) ==
    /\ Loop(l).pc = "remove"
    /\ Iterate(l, removeEntry(entries, Loop(l).msg.id), clock)
    /\ UNCHANGED <<running, runningMu, nextID, pc, arg, clock, jobWaiter, stops,
                   reply, issued, returned, removed, lastDispatch>>
    /\ UNCHANGED others

\* ------------------------------------------------------------- Entries
\* Entries on a stopped engine: Lock, c.entrySnapshot()
EntriesDirect(p) ==
    /\ pc[p] = "idle"
    /\ runningMu = Free
    /\ ~running
    /\ runningMu' = p
    /\ reply' = [full |-> TRUE, val |-> entrySnapshot(entries)]
    /\ pc' = [pc EXCEPT ![p] = "entries_wait"]
    /\ UNCHANGED <<entries, running, nextID, arg, loops, clock, jobWaiter, stops,
                   issued, returned, removed, lastDispatch>>
    /\ UNCHANGED others

\* Entries on a running engine: Lock, then blocked in "c.snapshot <- replyChan"
EntriesLock(p) ==
    /\ pc[p] = "idle"
    /\ runningMu = Free
    /\ running
    /\ runningMu' = p
    /\ pc' = [pc EXCEPT ![p] = "entries"]
    /\ UNCHANGED <<entries, running, nextID, arg, loops, clock, jobWaiter, stops,
                   reply, issued, returned, removed, lastDispatch>>
    /\ UNCHANGED others

\* "c.snapshot <- replyChan" meets "case replyChan := <-c.snapshot"
LoopRecvSnapshot(l, p) ==
    /\ pc[p] = "entries"
    /\ Loop(l).pc = "select"
    /\ loops' = [loops EXCEPT ![l] = [Loop(l) EXCEPT !.pc = "snapshot"]]
    /\ pc' = [pc EXCEPT ![p] = "entries_wait"]
    /\ UNCHANGED <<entries, running, runningMu, nextID, arg, clock, jobWaiter,
                   stops, reply, issued, returned, removed, lastDispatch>>
    /\ UNCHANGED others

\* the snapshot case going back to the select without sending the reply
LoopSnapshotSilent(l) ==
    /\ Loop(l).pc = "snapshot"
    /\ loops' = [loops EXCEPT ![l] = [Loop(l) EXCEPT !.pc = "select"]]
    /\ UNCHANGED <<entries, running, runningMu, nextID, pc, arg, clock, jobWaiter,
                   stops, reply, issued, returned, removed, lastDispatch>>
    /\ UNCHANGED others

\* the snapshot case of run(): reply with a copy and "continue": back to the
\* select with the same timer, no sort
LoopSnapshot(l) ==
    /\ Loop(l).pc = "snapshot"
    /\ reply' = [full |-> TRUE, val |-> entrySnapshot(entries)]
    /\ loops' = [loops EXCEPT ![l] = [Loop(l) EXCEPT !.pc = "select"]]
    /\ UNCHANGED <<entries, running, runningMu, nextID, pc, arg, clock, jobWaiter,
                   stops, issued, returned, removed, lastDispatch>>
    /\ UNCHANGED others

\* "return <-replyChan" / "return c.entrySnapshot()" and the deferred Unlock
EntriesDone(p) ==
    /\ pc[p] = "entries_wait"
    /\ reply.full
    /\ reply' = NoReply
    /\ Unlock
    /\ pc' = [pc EXCEPT ![p] = "idle"]
    /\ UNCHANGED <<entries, running, nextID, arg, loops, clock, jobWaiter, stops,
                   issued, returned, removed, lastDispatch>>

\* the caller drops the list
EntriesReturn(p) ==
    /\ EntriesDone(p)
    /\ UNCHANGED others

\* the caller keeps the list
EntriesKept(p) ==
    /\ EntriesDone(p)
    /\ held' = reply.val
    /\ UNCHANGED <<chainVars, schedVars, parseVars>>

\* the caller writes to an element of the list it holds, "es[i] = Entry{}":
\* the write lands in the list, and would land in the engine's entry were
\* the element a pointer to it
CallerChanges(i) ==
    /\ i \in 1..Len(held)
    /\ held[i].id # 0
    /\ IF "ptr" \in DOMAIN held[i]
       THEN /\ entries' = [k \in 1..Len(entries) |->
                              IF entries[k].id = held[i].id
                              THEN NewEntry(0, entries[k].sched)
                              ELSE entries[k]]
            /\ UNCHANGED held
       ELSE /\ held' = [held EXCEPT ![i] = NewEntry(0, held[i].sched)]
            /\ UNCHANGED entries
    /\ UNCHANGED <<running, runningMu, nextID, pc, arg, loops, clock, jobWaiter,
                   stops, reply, issued, returned, removed, lastDispatch>>
    /\ UNCHANGED <<chainVars, schedVars, parseVars>>

\* --------------------------------------------------------------- Start
StartLock(p) ==
    /\ pc[p] = "idle"
    /\ runningMu = Free
    /\ running \/ Len(loops) < MaxLoops
    /\ runningMu' = p
    /\ pc' = [pc EXCEPT ![p] = "start"]
    /\ UNCHANGED <<entries, running, nextID, arg, loops, clock, jobWaiter, stops,
                   reply, issued, returned, removed, lastDispatch>>
    /\ UNCHANGED others

\* Start without its "if c.running { return }"
StartLoopsAlways(r, ls) == Append(ls, NewLoop(NoOwner))

\* Start, given c.running: the invocations of run() after the call
StartLoops(r, ls) == IF r THEN ls ELSE Append(ls, NewLoop(NoOwner))

\* if c.running { return }; c.running = true; go c.run(); deferred Unlock
Start(p) ==
    /\ pc[p] = "start"
    /\ loops' = StartLoops(running, loops)
    /\ running' = TRUE
    /\ Unlock
    /\ pc' = [pc EXCEPT ![p] = "idle"]
    /\ UNCHANGED <<entries, nextID, arg, clock, jobWaiter, stops, reply, issued,
                   returned, removed, lastDispatch>>
    /\ UNCHANGED others

\* ----------------------------------------------------------------- Run
RunLock(p) ==
    /\ pc[p] = "idle"
    /\ runningMu = Free
    /\ running \/ Len(loops) < MaxLoops
    /\ runningMu' = p
    /\ pc' = [pc EXCEPT ![p] = "run"]
    /\ UNCHANGED <<entries, running, nextID, arg, loops, clock, jobWaiter, stops,
                   reply, issued, returned, removed, lastDispatch>>
    /\ UNCHANGED others

\* Run, given c.running: the invocations of run() after the call
RunLoops(r, ls, p) == IF r THEN ls ELSE Append(ls, NewLoop(p))

\* if c.running { Unlock; return }; c.running = true; Unlock; c.run()
Run(p) ==
    /\ pc[p] = "run"
    /\ loops' = RunLoops(running, loops, p)
    /\ running' = TRUE
    /\ Unlock
    /\ pc' = [pc EXCEPT ![p] = IF running THEN "idle" ELSE "in_run"]
    /\ UNCHANGED <<entries, nextID, arg, clock, jobWaiter, stops, reply, issued,
                   returned, removed, lastDispatch>>
    /\ UNCHANGED others

\* ---------------------------------------------------------------- Stop
\* the context of one Stop call; pre: the runnables dispatched before the
\* call that are still executing
NewStop(w) == [pre |-> w, ready |-> FALSE]

\* Stop on a stopped engine: Lock, create the context and the goroutine
\* "c.jobWaiter.Wait(); cancel()", Unlock
StopStopped(p) ==
    /\ pc[p] = "idle"
    /\ runningMu = Free
    /\ Len(stops) < MaxStops
    /\ ~running
    /\ stops' = Append(stops, NewStop(jobWaiter))
    /\ UNCHANGED <<entries, running, runningMu, nextID, pc, arg, loops, clock,
                   jobWaiter, reply, issued, returned, removed, lastDispatch>>
    /\ UNCHANGED others

\* Stop on a running engine: Lock, then blocked in "c.stop <- struct{}{}"
StopLock(p) ==
    /\ pc[p] = "idle"
    /\ runningMu = Free
    /\ Len(stops) < MaxStops
    /\ running
    /\ runningMu' = p
    /\ pc' = [pc EXCEPT ![p] = "stop"]
    /\ UNCHANGED <<entries, running, nextID, arg, loops, clock, jobWaiter, stops,
                   reply, issued, returned, removed, lastDispatch>>
    /\ UNCHANGED others

\* the loop takes the stop signal and goes on waiting instead of returning
LoopRecvStopIgnored(l, p) ==
    /\ pc[p] = "stop"
    /\ Loop(l).pc = "select"
    /\ pc' = [pc EXCEPT ![p] = "stop_sent"]
    /\ UNCHANGED <<entries, running, runningMu, nextID, arg, loops, clock, jobWaiter,
                   stops, reply, issued, returned, removed, lastDispatch>>
    /\ UNCHANGED others

\* "c.stop <- struct{}{}" meets "case <-c.stop"
LoopRecvStop(l, p) ==
    /\ pc[p] = "stop"
    /\ Loop(l).pc = "select"
    /\ loops' = [loops EXCEPT ![l] = [Loop(l) EXCEPT !.pc = "stopping", !.timer = Far]]
    /\ pc' = [pc EXCEPT ![p] = "stop_sent"]
    /\ UNCHANGED <<entries, running, runningMu, nextID, arg, clock, jobWaiter,
                   stops, reply, issued, returned, removed, lastDispatch>>
    /\ UNCHANGED others

\* Stop goes on without the loop having taken the stop signal
StopSentEarly(p) == pc[p] \in {"stop", "stop_sent"}

\* Stop is past "c.stop <- struct{}{}"
StopSent(p) == pc[p] = "stop_sent"

\* c.running = false; create the context and the goroutine; Unlock
StopFinish(p) ==
    /\ StopSent(p)
    /\ running' = FALSE
    /\ stops' = Append(stops, NewStop(jobWaiter))
    /\ Unlock
    /\ pc' = [pc EXCEPT ![p] = "idle"]
    /\ UNCHANGED <<entries, nextID, arg, loops, clock, jobWaiter, reply, issued,
                   returned, removed, lastDispatch>>
    /\ UNCHANGED others

\* Wait returns whatever the counter
WaitReturnsAtOnce(w) == TRUE

\* sync.WaitGroup.Wait returns: the counter is zero
WaitReturns(w) == w = {}

\* the goroutine of Stop: c.jobWaiter.Wait() returns, cancel()
StopWaitReturn(k) ==
    /\ ~stops[k].ready
    /\ WaitReturns(jobWaiter)
    /\ stops' = [stops EXCEPT ![k].ready = TRUE]
    /\ UNCHANGED <<entries, running, runningMu, nextID, pc, arg, loops, clock,
                   jobWaiter, reply, issued, returned, removed, lastDispatch>>
    /\ UNCHANGED others

\* ------------------------------------------------------------ startJob
\* c.jobWaiter.Add(1); go func() { defer c.jobWaiter.Done(); j.Run() }()
startJob(w, e) == w \cup {<<e.id, e.next>>}

\* the process is alive: no goroutine has let a panic escape
Alive == \A p \in Procs : pc[p] # "exited"

\* a runnable returns: the deferred c.jobWaiter.Done()
JobFinish(j) ==
    /\ j \in jobWaiter
    /\ jobWaiter' = jobWaiter \ {j}
    /\ stops' = [k \in 1..Len(stops) |-> [stops[k] EXCEPT !.pre = @ \ {j}]]
    /\ UNCHANGED <<entries, running, runningMu, nextID, pc, arg, loops, clock,
                   reply, issued, returned, removed, lastDispatch>>
    /\ UNCHANGED others

\* a runnable panics: New builds the engine with the empty chain NewChain()
\* and the goroutine of startJob defers only c.jobWaiter.Done(), so the panic
\* leaves the goroutine and the Go runtime ends the process: every goroutine
\* is gone and the engine's memory with it
JobFault(j) ==
    /\ j \in jobWaiter
    /\ pc' = [p \in Procs |-> "exited"]
    /\ loops' = [l \in 1..Len(loops) |-> [NewLoop(NoOwner) EXCEPT !.pc = "exited"]]
    /\ entries' = <<>>
    /\ runningMu' = Free
    /\ arg' = [p \in Procs |-> NoArg]
    /\ reply' = NoReply
    /\ jobWaiter' = {}
    /\ stops' = <<>>
    /\ UNCHANGED <<running, nextID, clock, issued, returned, removed, lastDispatch>>
    /\ UNCHANGED others

\* ------------------------------------------------------------ c.run()
\* the loop at the head of run(): every entry's Next from Schedule.Next(now)
InitNext(es, now) ==
    [i \in 1..Len(es) |-> [es[i] EXCEPT !.next = ScheduleNext(es[i].sched, now)]]

\* "now := c.now()", compute every Next, then the first iteration
LoopInit(l) ==
    /\ Loop(l).pc = "start"
    /\ Iterate(l, InitNext(entries, clock), clock)
    /\ UNCHANGED <<running, runningMu, nextID, pc, arg, clock, jobWaiter, stops,
                   reply, issued, returned, removed, lastDispatch>>
    /\ UNCHANGED others

\* "case now = <-timer.C": the timer fired at some instant t, not before its
\* deadline and not after the present
LoopRecvTimer(l) ==
    /\ Loop(l).pc = "select"
    /\ Loop(l).timer # Far
    /\ \E t \in Loop(l).timer..clock :
        loops' = [loops EXCEPT ![l] = [Loop(l) EXCEPT !.pc = "wake", !.now = t, !.timer = Far]]
    /\ UNCHANGED <<entries, running, runningMu, nextID, pc, arg, clock, jobWaiter,
                   stops, reply, issued, returned, removed, lastDispatch>>
    /\ UNCHANGED others

\* the dispatch loop breaks at an entry due exactly now
NotDueStrict(e, now) == e.next >= now \/ IsZero(e.next)

\* the break condition of the dispatch loop
NotDue(e, now) == e.next > now \/ IsZero(e.next)

\* how many leading entries the dispatch loop runs before it breaks
DueCount(es, now) ==
    LET brk == {i \in 1..Len(es) : NotDue(es[i], now)}
    IN  IF brk = {} THEN Len(es)
        ELSE (CHOOSE i \in brk : \A j \in brk : i <= j) - 1

\* c.entries after the dispatch loop: e.Prev = e.Next; e.Next = Schedule.Next(now)
Dispatched(es, now) ==
    [i \in 1..Len(es) |->
        IF i <= DueCount(es, now)
        THEN [es[i] EXCEPT !.prev = es[i].next, !.next = ScheduleNext(es[i].sched, now)]
        ELSE es[i]]

\* the timer case of run(): c.startJob for every due entry in order, then
\* the next iteration
LoopWake(l) ==
    /\ Loop(l).pc = "wake"
    /\ LET now == Loop(l).now
           k   == DueCount(entries, now)
       IN /\ jobWaiter' = UNION ({jobWaiter} \cup {startJob(jobWaiter, entries[i]) : i \in 1..k})
          /\ lastDispatch' = [i \in 1..k |-> entries[i].id]
          /\ Iterate(l, Dispatched(entries, now), now)
    /\ UNCHANGED <<running, runningMu, nextID, pc, arg, clock, stops, reply,
                   issued, returned, removed>>
    /\ UNCHANGED others

\* the stop case of run(): timer.Stop(), log, return; a Run caller returns
LoopExit(l) ==
    /\ Loop(l).pc = "stopping"
    /\ loops' = [loops EXCEPT ![l] = [NewLoop(NoOwner) EXCEPT !.pc = "done"]]
    /\ pc' = [p \in Procs |-> IF p = Loop(l).owner THEN "idle" ELSE pc[p]]
    /\ UNCHANGED <<entries, running, runningMu, nextID, arg, clock, jobWaiter,
                   stops, reply, issued, returned, removed, lastDispatch>>
    /\ UNCHANGED others

Next ==
    \/ Tick
    \/ \E p \in Procs :
        \/ \E s \in Scheds : ScheduleDirect(p, s) \/ ScheduleLock(p, s)
        \/ \E id \in 1..MaxID : RemoveDirect(p, id) \/ RemoveLock(p, id)
        \/ EntriesDirect(p)
        \/ EntriesLock(p)
        \/ EntriesReturn(p)
        \/ StartLock(p)
        \/ Start(p)
        \/ RunLock(p)
        \/ Run(p)
        \/ StopStopped(p)
        \/ StopLock(p)
        \/ StopFinish(p)
        \/ \E l \in LoopIDs :
            \/ LoopRecvAdd(l, p)
            \/ LoopRecvRemove(l, p)
            \/ LoopRecvSnapshot(l, p)
            \/ LoopRecvStop(l, p)
    \/ \E l \in LoopIDs :
        \/ LoopInit(l)
        \/ LoopRecvTimer(l)
        \/ LoopWake(l)
        \/ LoopAdd(l)
        \/ LoopRemove(l)
        \/ LoopSnapshot(l)
        \/ LoopExit(l)
    \/ \E k \in 1..Len(stops) : StopWaitReturn(k)
    \/ \E j \in jobWaiter : JobFinish(j)
    \/ \E j \in jobWaiter : JobFault(j)

Spec == Init /\ [][Next]_vars

\* the engine with callers that register entries, start it, and keep the
\* list Entries returns and write to it
NextEntries ==
    \/ Tick
    \/ \E p \in Procs :
        \/ \E s \in Scheds : ScheduleDirect(p, s) \/ ScheduleLock(p, s)
        \/ EntriesDirect(p)
        \/ EntriesLock(p)
        \/ EntriesKept(p)
        \/ StartLock(p)
        \/ Start(p)
        \/ \E l \in LoopIDs :
            \/ LoopRecvAdd(l, p)
            \/ LoopRecvSnapshot(l, p)
    \/ \E l \in LoopIDs :
        \/ LoopInit(l)
        \/ LoopRecvTimer(l)
        \/ LoopWake(l)
        \/ LoopAdd(l)
        \/ LoopSnapshot(l)
    \/ \E j \in jobWaiter : JobFinish(j)
    \/ \E i \in 1..MaxID : CallerChanges(i)

SpecEntries == Init /\ [][NextEntries]_vars

\* the schedules, the last instant and the number of Stop calls of the fair
\* specification
FairScheds == {Never, 1}
FairTime == 2
FairStops == 1

\* one step of the invocation l of run() that is not a receive of the select
LoopStep(l) ==
    /\ l \in LoopIDs
    /\ \/ LoopInit(l)
       \/ LoopWake(l)
       \/ LoopAdd(l)
       \/ LoopRemove(l)
       \/ LoopSnapshot(l)
       \/ LoopExit(l)

\* a caller's own step between taking the lock and returning
CallerStep(p) ==
    \/ Start(p)
    \/ Run(p)
    \/ StopFinish(p)
    \/ EntriesReturn(p)

\* the select of run() takes what the caller p holds out on a control channel
Handoff(p) ==
    \E l \in LoopIDs :
        \/ LoopRecvAdd(l, p)
        \/ LoopRecvRemove(l, p)
        \/ LoopRecvSnapshot(l, p)
        \/ LoopRecvStop(l, p)

\* the select of run() takes the timer's instant
TimerFires(l) == l \in LoopIDs /\ LoopRecvTimer(l)

\* the engine with every caller operation (Stop on the running engine only),
\* the timer and the runnables, over the schedules FairScheds and the
\* instants up to FairTime
NextFair ==
    \/ (clock < FairTime /\ Tick)
    \/ \E p \in Procs :
        \/ \E s \in FairScheds : ScheduleDirect(p, s) \/ ScheduleLock(p, s)
        \/ \E id \in 1..MaxID : RemoveDirect(p, id) \/ RemoveLock(p, id)
        \/ EntriesDirect(p)
        \/ EntriesLock(p)
        \/ StartLock(p)
        \/ RunLock(p)
        \/ (Len(stops) < FairStops /\ StopLock(p))
        \/ CallerStep(p)
        \/ Handoff(p)
    \/ \E l \in 1..MaxLoops : LoopStep(l) \/ TimerFires(l)
    \/ \E k \in 1..Len(stops) : StopWaitReturn(k)
    \/ \E j \in jobWaiter : JobFinish(j)
    \/ \E j \in jobWaiter : JobFault(j)

\* the Go scheduler runs every goroutine that can take a step: the loop, the
\* callers between Lock and return, the goroutine of Stop, the runnables
\* (each returns or panics); a select with several ready cases picks one at
\* random, so a sender that is ready again and again is taken, and so is the
\* timer that has fired; and time passes, up to the last instant FairTime
FairSteps ==
    /\ \A l \in 1..MaxLoops : WF_vars(LoopStep(l)) /\ SF_vars(TimerFires(l))
    /\ \A p \in Procs : WF_vars(CallerStep(p)) /\ SF_vars(Handoff(p))
    /\ WF_vars(\E j \in jobWaiter : JobFinish(j) \/ JobFault(j))
    /\ WF_vars(clock < FairTime /\ Tick)

SpecFair == Init /\ [][NextFair]_vars /\ FairSteps

\* the schedules of the lifecycle specification: one that never fires and
\* one constant delay
LifeScheds == {Never, MaxDelay}

\* the engine's lifecycle with the clock at rest: every caller operation and
\* every case of the loop's select except the timer, so that no runnable is
\* dispatched
NextLife ==
    \/ \E p \in Procs :
        \/ \E s \in LifeScheds : ScheduleDirect(p, s) \/ ScheduleLock(p, s)
        \/ \E id \in 1..MaxID : RemoveDirect(p, id) \/ RemoveLock(p, id)
        \/ EntriesDirect(p)
        \/ EntriesLock(p)
        \/ EntriesReturn(p)
        \/ StartLock(p)
        \/ Start(p)
        \/ RunLock(p)
        \/ Run(p)
        \/ StopStopped(p)
        \/ StopLock(p)
        \/ StopFinish(p)
        \/ \E l \in LoopIDs :
            \/ LoopRecvAdd(l, p)
            \/ LoopRecvRemove(l, p)
            \/ LoopRecvSnapshot(l, p)
            \/ LoopRecvStop(l, p)
    \/ \E l \in LoopIDs :
        \/ LoopInit(l)
        \/ LoopAdd(l)
        \/ LoopRemove(l)
        \/ LoopSnapshot(l)
        \/ LoopExit(l)

SpecLife == Init /\ [][NextLife]_vars

\* ================================================================ chain.go
\* the decorators: the three of chain.go and any other JobWrapper, which
\* calls j.Run() and nothing else
Kinds == {"Recover", "DelayIfStillRunning", "SkipIfStillRunning", "Other"}

\* the runnable given to Then
Base == "Job"

\* the values a runnable may panic with
Faults == {"value", "nil"}

\* NewChain(c ...JobWrapper): every list of decorators
NewChain == UNION {[1..n -> Kinds] : n \in 0..MaxChain}

\* w(j): the frame of w around the Job j
Wrap(w, j) == <<w>> \o j

\* the decorators taken in list order, first to last
WrapperAtForward(ws, i) == ws[i + 1]

\* c.wrappers[len(c.wrappers)-i-1], i counted from 0
WrapperAt(ws, i) == ws[Len(ws) - i]

\* the loop of Then: "for i := range c.wrappers { j = c.wrappers[...](j) }"
RECURSIVE ThenLoop(_, _, _)
ThenLoop(ws, j, i) ==
    IF i >= Len(ws) THEN j ELSE ThenLoop(ws, Wrap(WrapperAt(ws, i), j), i + 1)

Then(ws, j) == ThenLoop(ws, j, 0)

\* one event of an invocation
Event(ev, at, how) == [ev |-> ev, at |-> at, how |-> how]

\* goroutine c runs frames 1..i of the job at this moment
Active(c, i) ==
    /\ ctx[c].pc # "idle"
    /\ i >= 1
    /\ i <= (IF ctx[c].pc = "down" THEN ctx[c].depth - 1 ELSE ctx[c].depth)

\* Then: the decorators are applied; "ch <- struct{}{}" fills the channel of
\* each SkipIfStillRunning frame, "var mu sync.Mutex" is unlocked
ChainThen ==
    /\ job = <<>>
    /\ job' = Then(wrappers, <<Base>>)
    /\ ch' = [i \in Frames |->
                IF i <= Len(job') /\ job'[i] = "SkipIfStillRunning" THEN 1 ELSE 0]
    /\ mu' = [i \in Frames |-> Free]
    /\ UNCHANGED <<wrappers, ctx>>
    /\ UNCHANGED <<engineVars, schedVars, parseVars>>

\* a goroutine calls Run() of the wrapped job
Invoke(c) ==
    /\ job # <<>>
    /\ ctx[c].pc = "idle"
    /\ ctx[c].calls < MaxCalls
    /\ ctx' = [ctx EXCEPT ![c] = [@ EXCEPT !.pc = "down", !.depth = 1]]
    /\ UNCHANGED <<wrappers, job, mu, ch>>
    /\ UNCHANGED <<engineVars, schedVars, parseVars>>

\* the frame of c that acts next
Frame(c) == job[ctx[c].depth]

\* c enters frame depth and calls the next one
Descend(c) ==
    [ctx[c] EXCEPT !.depth = @ + 1,
                   !.trace = Append(@, Event("enter", ctx[c].depth, "call"))]

\* c leaves frame depth the way it is going (return or panic)
Ascend(c, how) ==
    [ctx[c] EXCEPT !.pc = how, !.depth = @ - 1,
                   !.trace = Append(@, Event("exit", ctx[c].depth, how))]

\* Recover and any other decorator: (defer ...;) j.Run()
EnterPlain(c) ==
    /\ ctx[c].pc = "down"
    /\ Frame(c) \in {"Recover", "Other"}
    /\ ctx' = [ctx EXCEPT ![c] = Descend(c)]
    /\ UNCHANGED <<wrappers, job, mu, ch>>
    /\ UNCHANGED <<engineVars, schedVars, parseVars>>

\* DelayIfStillRunning: mu.Lock() returns, defer mu.Unlock(), "if dur :=
\* time.Since(start); dur > time.Minute" logs "delay", j.Run(). The chain has
\* no clock: the time from time.Now() to the return of mu.Lock() is the wait
\* for the mutex and for the scheduler, more than a minute (late) or not
DelayLock(c) ==
    /\ ctx[c].pc = "down"
    /\ Frame(c) = "DelayIfStillRunning"
    /\ mu[ctx[c].depth] = Free
    /\ mu' = [mu EXCEPT ![ctx[c].depth] = c]
    /\ \E late \in BOOLEAN :
        ctx' = [ctx EXCEPT ![c] =
            [Descend(c) EXCEPT !.trace =
                IF late THEN Append(@, Event("info", ctx[c].depth, "delay")) ELSE @]]
    /\ UNCHANGED <<wrappers, job, ch>>
    /\ UNCHANGED <<engineVars, schedVars, parseVars>>

\* the token is taken although the channel is empty
SkipTakesAlways(n) == TRUE

\* "case v := <-ch" is ready
SkipTakes(n) == n > 0

\* SkipIfStillRunning: the select takes the token and calls j.Run(), or
\* takes the default case, logs "skip" and returns
SkipSelect(c) ==
    /\ ctx[c].pc = "down"
    /\ Frame(c) = "SkipIfStillRunning"
    /\ IF SkipTakes(ch[ctx[c].depth])
       THEN /\ ch' = [ch EXCEPT ![ctx[c].depth] = 0]
            /\ ctx' = [ctx EXCEPT ![c] = Descend(c)]
       ELSE /\ ch' = ch
            /\ ctx' = [ctx EXCEPT ![c] =
                  [Ascend(c, "up") EXCEPT !.trace =
                      ctx[c].trace \o <<Event("enter", ctx[c].depth, "call"),
                                        Event("info", ctx[c].depth, "skip"),
                                        Event("exit", ctx[c].depth, "up")>>]]
    /\ UNCHANGED <<wrappers, job, mu>>
    /\ UNCHANGED <<engineVars, schedVars, parseVars>>

\* the runnable itself starts executing
RunStart(c) ==
    /\ ctx[c].pc = "down"
    /\ Frame(c) = Base
    /\ ctx' = [ctx EXCEPT ![c] = [@ EXCEPT !.pc = "run",
                  !.trace = Append(@, Event("enter", ctx[c].depth, "call"))]]
    /\ UNCHANGED <<wrappers, job, mu, ch>>
    /\ UNCHANGED <<engineVars, schedVars, parseVars>>

\* the runnable returns
RunReturn(c) ==
    /\ ctx[c].pc = "run"
    /\ ctx' = [ctx EXCEPT ![c] = Ascend(c, "up")]
    /\ UNCHANGED <<wrappers, job, mu, ch>>
    /\ UNCHANGED <<engineVars, schedVars, parseVars>>

\* the runnable panics with the value v
RunPanic(c, v) ==
    /\ ctx[c].pc = "run"
    /\ ctx' = [ctx EXCEPT ![c] = [Ascend(c, "panic") EXCEPT !.fault = v]]
    /\ UNCHANGED <<wrappers, job, mu, ch>>
    /\ UNCHANGED <<engineVars, schedVars, parseVars>>

\* Recover (its deferred function sees recover() = nil) and any other
\* decorator: j.Run() has returned and so does the frame
ReturnPlain(c) ==
    /\ ctx[c].pc = "up"
    /\ ctx[c].depth >= 1
    /\ Frame(c) \in {"Recover", "Other"}
    /\ ctx' = [ctx EXCEPT ![c] = Ascend(c, "up")]
    /\ UNCHANGED <<wrappers, job, mu, ch>>
    /\ UNCHANGED <<engineVars, schedVars, parseVars>>

\* mu.Unlock() after j.Run() only, not deferred
DelayReleasesOnReturn(how) == how = "up"

\* "defer mu.Unlock()": the mutex is released however j.Run() ended
DelayReleases(how) == how \in {"up", "panic"}

\* DelayIfStillRunning: the deferred mu.Unlock() runs when j.Run() returns
\* and when it panics; the frame ends the way j.Run() ended
DelayUnlock(c) ==
    /\ ctx[c].pc \in {"up", "panic"}
    /\ ctx[c].depth >= 1
    /\ Frame(c) = "DelayIfStillRunning"
    /\ mu' = [mu EXCEPT ![ctx[c].depth] = IF DelayReleases(ctx[c].pc) THEN Free ELSE @]
    /\ ctx' = [ctx EXCEPT ![c] = Ascend(c, ctx[c].pc)]
    /\ UNCHANGED <<wrappers, job, ch>>
    /\ UNCHANGED <<engineVars, schedVars, parseVars>>

\* SkipIfStillRunning: "ch <- v" after j.Run() has returned
SkipPutBack(c) ==
    /\ ctx[c].pc = "up"
    /\ ctx[c].depth >= 1
    /\ Frame(c) = "SkipIfStillRunning"
    /\ ch' = [ch EXCEPT ![ctx[c].depth] = 1]
    /\ ctx' = [ctx EXCEPT ![c] = Ascend(c, "up")]
    /\ UNCHANGED <<wrappers, job, mu>>
    /\ UNCHANGED <<engineVars, schedVars, parseVars>>

\* a panic passes a frame that has no deferred function: "ch <- v" of
\* SkipIfStillRunning is not reached
PanicThrough(c) ==
    /\ ctx[c].pc = "panic"
    /\ ctx[c].depth >= 1
    /\ Frame(c) \in {"SkipIfStillRunning", "Other"}
    /\ ctx' = [ctx EXCEPT ![c] = Ascend(c, "panic")]
    /\ UNCHANGED <<wrappers, job, mu, ch>>
    /\ UNCHANGED <<engineVars, schedVars, parseVars>>

\* what recover() may return for a panic with value v: the value; for
\* panic(nil) either nil (Go before 1.21, or GODEBUG=panicnil=1, the default
\* of a module whose go.mod names an older Go) or a *runtime.PanicNilError
RecoverResults(v) == IF v = "nil" THEN {"nil", "PanicNilError"} ELSE {v}

\* every panic is taken for a return without a fault
RecoverResultsNone(v) == {"nil"}

\* Recover: the deferred function stops the panic; "if r := recover(); r !=
\* nil" calls logger.Error; the frame returns
RecoverPanic(c) ==
    /\ ctx[c].pc = "panic"
    /\ ctx[c].depth >= 1
    /\ Frame(c) = "Recover"
    /\ \E r \in RecoverResults(ctx[c].fault) :
        ctx' = [ctx EXCEPT ![c] =
            [Ascend(c, "up") EXCEPT
                !.fault = "none",
                !.trace = ctx[c].trace \o
                    (IF r # "nil" THEN <<Event("error", ctx[c].depth, r)>> ELSE <<>>) \o
                    <<Event("exit", ctx[c].depth, "up")>>]]
    /\ UNCHANGED <<wrappers, job, mu, ch>>
    /\ UNCHANGED <<engineVars, schedVars, parseVars>>

\* Run() of the wrapped job is over: it returns to the goroutine that called
\* it, or its panic goes on into that goroutine
InvokeEnd(c) ==
    /\ ctx[c].pc \in {"up", "panic"}
    /\ ctx[c].depth = 0
    /\ ctx' = [ctx EXCEPT ![c] = [IdleCtx EXCEPT !.calls = ctx[c].calls + 1]]
    /\ UNCHANGED <<wrappers, job, mu, ch>>
    /\ UNCHANGED <<engineVars, schedVars, parseVars>>

InitChain ==
    /\ EngineInit
    /\ SchedUnused
    /\ ParseUnused
    /\ wrappers \in NewChain
    /\ job = <<>>
    /\ mu = [i \in Frames |-> Free]
    /\ ch = [i \in Frames |-> 0]
    /\ ctx = [c \in Ctxs |-> IdleCtx]

NextChain ==
    \/ ChainThen
    \/ \E c \in Ctxs :
        \/ Invoke(c)
        \/ EnterPlain(c)
        \/ DelayLock(c)
        \/ SkipSelect(c)
        \/ RunStart(c)
        \/ RunReturn(c)
        \/ \E v \in Faults : RunPanic(c, v)
        \/ ReturnPlain(c)
        \/ DelayUnlock(c)
        \/ SkipPutBack(c)
        \/ PanicThrough(c)
        \/ RecoverPanic(c)
        \/ InvokeEnd(c)

SpecChain == InitChain /\ [][NextChain]_vars

\* every step of goroutine c inside Run() of the wrapped job but the wait
\* for the mutex: the scheduler runs a runnable goroutine, the runnable ends
ChainStep(c) ==
    \/ EnterPlain(c)
    \/ SkipSelect(c)
    \/ RunStart(c)
    \/ RunReturn(c)
    \/ \E v \in Faults : RunPanic(c, v)
    \/ ReturnPlain(c)
    \/ DelayUnlock(c)
    \/ SkipPutBack(c)
    \/ PanicThrough(c)
    \/ RecoverPanic(c)
    \/ InvokeEnd(c)

\* the chain under a fair scheduler; sync.Mutex hands a mutex that is
\* released again and again to every waiter in the end (starvation mode)
SpecChainFair ==
    /\ InitChain
    /\ [][NextChain]_vars
    /\ WF_vars(ChainThen)
    /\ \A c \in Ctxs : WF_vars(ChainStep(c)) /\ SF_vars(DelayLock(c))

\* ======================================================= schedules: Next
\* An instant is a record of its calendar fields in one location without
\* clock changes; ns counts quarter seconds.
Instant(y, mo, d, h, mi, s, ns) ==
    [y |-> y, mo |-> mo, d |-> d, h |-> h, mi |-> mi, s |-> s, ns |-> ns]

\* time.Time{}: January 1 of year 1, 00:00:00
ZeroInstant == Instant(1, 1, 1, 0, 0, 0, 0)

IsLeap(y) == (y % 4 = 0 /\ y % 100 # 0) \/ y % 400 = 0

DaysIn(y, mo) ==
    IF mo = 2 THEN (IF IsLeap(y) THEN 29 ELSE 28)
    ELSE IF mo \in {4, 6, 9, 11} THEN 30 ELSE 31

\* days from 1970-01-01 to the date
DayNumber(y, mo, d) ==
    LET yy  == IF mo <= 2 THEN y - 1 ELSE y
        era == yy \div 400
        yoe == yy - era * 400
        mp  == (mo + 9) % 12
        doy == (153 * mp + 2) \div 5 + d - 1
        doe == yoe * 365 + yoe \div 4 - yoe \div 100 + doy
    IN  era * 146097 + doe - 719468

\* t.Weekday(): Sunday is 0; 1970-01-01 was a Thursday
Weekday(u) == (DayNumber(u.y, u.mo, u.d) + 4) % 7

\* a < b, field by field
Before(a, b) ==
    LET fa == <<a.y, a.mo, a.d, a.h, a.mi, a.s, a.ns>>
        fb == <<b.y, b.mo, b.d, b.h, b.mi, b.s, b.ns>>
    IN  \E k \in 1..7 : fa[k] < fb[k] /\ \A j \in 1..(k - 1) : fa[j] = fb[j]

\* time.Date with a month of 13 or a day past the end of the month
NormDate(u) ==
    LET a == IF u.mo > 12 THEN [u EXCEPT !.y = @ + 1, !.mo = @ - 12] ELSE u
        b == IF a.d > DaysIn(a.y, a.mo)
             THEN [a EXCEPT !.d = @ - DaysIn(a.y, a.mo), !.mo = @ + 1]
             ELSE a
    IN  IF b.mo > 12 THEN [b EXCEPT !.y = @ + 1, !.mo = @ - 12] ELSE b

\* t.AddDate(0, months, days)
AddDate(u, months, days) == NormDate([u EXCEPT !.mo = @ + months, !.d = @ + days])

\* t.Add(time.Hour), t.Add(time.Minute), t.Add(time.Second)
AddHour(u) ==
    IF u.h < 23 THEN [u EXCEPT !.h = @ + 1] ELSE AddDate([u EXCEPT !.h = 0], 0, 1)

AddMinute(u) ==
    IF u.mi < 59 THEN [u EXCEPT !.mi = @ + 1] ELSE AddHour([u EXCEPT !.mi = 0])

AddSecond(u) ==
    IF u.s < 59 THEN [u EXCEPT !.s = @ + 1] ELSE AddMinute([u EXCEPT !.s = 0])

RECURSIVE AddSeconds(_, _)
AddSeconds(u, n) == IF n <= 0 THEN u ELSE AddSeconds(AddSecond(u), n - 1)

\* t.Add(d) for a duration of n quarter seconds, n >= -t.Nanosecond()
AddTicks(u, n) ==
    AddSeconds([u EXCEPT !.ns = (u.ns + n) % Second], (u.ns + n) \div Second)

\* ------------------------------------------------------- large numbers
\* A uint64, an int64 and the mantissa of a float64 are beyond the integers
\* at hand. A natural number is kept in thousands: the sequence of its
\* digits to the base 1000, most significant first and without leading
\* zeros, as 9,007,199,254,740,992 is written; zero is <<>>.
Thousand == 10 ^ 3

SetMin(S) == CHOOSE x \in S : \A y \in S : x <= y

SetMax(S) == CHOOSE x \in S : \A y \in S : x >= y

\* the one element of a set; "Pick({F(x) : x \in {e}})" is F(e) with e
\* computed once
Pick(S) == CHOOSE v \in S : TRUE

\* a sequence of digits without its leading zeros
Norm(x) ==
    IF \E i \in 1..Len(x) : x[i] # 0
    THEN SubSeq(x, SetMin({i \in 1..Len(x) : x[i] # 0}), Len(x))
    ELSE <<>>

\* the number of a small integer
RECURSIVE Num(_)
Num(n) == IF n = 0 THEN <<>> ELSE Append(Num(n \div Thousand), n % Thousand)

\* the integer of a number that is small
RECURSIVE NumVal(_)
NumVal(x) ==
    IF Len(x) = 0 THEN 0 ELSE Thousand * NumVal(SubSeq(x, 1, Len(x) - 1)) + x[Len(x)]

\* a < b
NumLess(a, b) ==
    \/ Len(a) < Len(b)
    \/ /\ Len(a) = Len(b)
       /\ \E i \in 1..Len(a) :
            /\ a[i] < b[i]
            /\ \A j \in 1..(i - 1) : a[j] = b[j]

\* the digit of Thousand^p in a
At(a, p) == IF p < Len(a) THEN a[Len(a) - p] ELSE 0

\* a * Thousand^k
Shift(a, k) == IF Len(a) = 0 THEN a ELSE a \o [i \in 1..k |-> 0]

\* a with zeros in front, n digits in all
Pad(a, n) == [i \in 1..(n - Len(a)) |-> 0] \o a

\* a + b of two sequences of one length that starts with a zero: a digit
\* takes a carry when a sum behind it overflows and all sums between pass
\* the carry on
AddDigits(a, b) ==
    Norm([i \in 1..Len(a) |->
            (a[i] + b[i]
             + (IF \E j \in (i + 1)..Len(a) :
                     /\ a[j] + b[j] >= Thousand
                     /\ \A l \in (i + 1)..(j - 1) : a[l] + b[l] = Thousand - 1
                THEN 1 ELSE 0)) % Thousand])

\* a + b
NumAdd(a, b) ==
    AddDigits(Pad(a, Max(Len(a), Len(b)) + 1), Pad(b, Max(Len(a), Len(b)) + 1))

\* a - b of two sequences of one length: a digit lends when a digit behind
\* it is too small and all digits between are equal
SubDigits(a, b) ==
    Norm([i \in 1..Len(a) |->
            (Thousand + a[i] - b[i]
             - (IF \E j \in (i + 1)..Len(a) :
                     /\ a[j] < b[j]
                     /\ \A l \in (i + 1)..(j - 1) : a[l] = b[l]
                THEN 1 ELSE 0)) % Thousand])

\* a - b, for a >= b
NumSub(a, b) == SubDigits(a, Pad(b, Len(a)))

\* the digits of Thousand^k of the products of n and each digit of a, in the
\* places of the digits of a
TimesPart(a, n, k) ==
    Shift(Norm([i \in 1..Len(a) |-> ((a[i] * n) \div (Thousand ^ k)) % Thousand]), k)

\* a * n, for an integer n of at most 1<<21
NumTimes(a, n) ==
    Pick({NumAdd(x, y) : x \in {NumAdd(TimesPart(a, n, 0), TimesPart(a, n, 1))},
                         y \in {NumAdd(TimesPart(a, n, 2), TimesPart(a, n, 3))}})

RECURSIVE MulFrom(_, _, _, _)
MulFrom(a, b, i, acc) ==
    IF i > Len(b) THEN acc
    ELSE Pick({MulFrom(a, b, i + 1, s) :
                 s \in {NumAdd(Shift(acc, 1), NumTimes(a, b[i]))}})

\* a * b
NumMul(a, b) == MulFrom(a, b, 1, <<>>)

\* x * 2^g
RECURSIVE TimesPowTwo(_, _)
TimesPowTwo(x, g) ==
    IF g <= 20 THEN NumTimes(x, 2 ^ g)
    ELSE Pick({TimesPowTwo(y, g - 20) : y \in {NumTimes(x, 2 ^ 20)}})

\* 1<<53, 1<<63 and 1<<64
Two53 == TimesPowTwo(<<1>>, 53)

Two63 == TimesPowTwo(<<1>>, 63)

Two64 == TimesPowTwo(<<1>>, 64)

\* a + b in a uint64: the sum wraps around at 1<<64
Uint64Add(a, b) ==
    IF NumLess(NumAdd(a, b), Two64) THEN NumAdd(a, b)
    ELSE NumSub(NumAdd(a, b), Two64)

\* x / 2^c for c of 1..6 or 9 is x * (Thousand^j / 2^c) / Thousand^j, j digits for
\* up to 3 * j bits: the quotient is the product without its last j digits
HalvingDigits(c) == (c + 2) \div 3

Halved(x, c) ==
    SubSeq(NumTimes(x, (Thousand ^ HalvingDigits(c)) \div (2 ^ c)), 1,
           Len(NumTimes(x, (Thousand ^ HalvingDigits(c)) \div (2 ^ c))) - HalvingDigits(c))

\* and the fraction is in those last j digits, Thousand^j for a whole
HalvedRest(x, c) ==
    SubSeq([i \in 1..HalvingDigits(c) |-> 0]
             \o NumTimes(x, (Thousand ^ HalvingDigits(c)) \div (2 ^ c)),
           Len(NumTimes(x, (Thousand ^ HalvingDigits(c)) \div (2 ^ c))) + 1,
           Len(NumTimes(x, (Thousand ^ HalvingDigits(c)) \div (2 ^ c))) + HalvingDigits(c))

\* the bits to drop in one step when s are to drop
HalvingStep(s) == IF s >= 9 THEN 9 ELSE IF s >= 6 THEN 6 ELSE s

\* x / 2^s, the fraction dropped
RECURSIVE ShiftRight(_, _)
ShiftRight(x, s) ==
    IF s = 0 \/ Len(x) = 0 THEN x
    ELSE Pick({ShiftRight(y, s - HalvingStep(s)) : y \in {Norm(Halved(x, HalvingStep(s)))}})

\* ------------------------------------------------------------- float64
\* A positive float64 is m * 2^e with a mantissa m of at most 53 bits; the
\* numbers met here are far from the smallest and the largest float64.

\* 1<<53 to 1<<62
RoundLimits ==
    <<TimesPowTwo(<<1>>, 53), TimesPowTwo(<<1>>, 54), TimesPowTwo(<<1>>, 55),
      TimesPowTwo(<<1>>, 56), TimesPowTwo(<<1>>, 57), TimesPowTwo(<<1>>, 58),
      TimesPowTwo(<<1>>, 59), TimesPowTwo(<<1>>, 60), TimesPowTwo(<<1>>, 61),
      TimesPowTwo(<<1>>, 62)>>

\* the bits to drop next of an x of more than 53 bits: as many as there are
\* too many, in the steps there are
RoundStep(x) ==
    HalvingStep(SetMax({c \in 1..Len(RoundLimits) : ~NumLess(x, RoundLimits[c])}))

\* x * 2^e rounded to 53 bits, to the nearest and to even when halfway: rnd
\* is the bit dropped last, sticky tells of a one among the bits dropped
\* before it
RECURSIVE RoundBits(_, _, _, _)
RoundBits(x, e, rnd, sticky) ==
    IF NumLess(x, Two53)
    THEN [m |-> IF rnd /\ (sticky \/ At(x, 0) % 2 = 1) THEN NumAdd(x, <<1>>) ELSE x,
          e |-> e]
    ELSE Pick({RoundBits(y, e + RoundStep(x), r[1] >= Thousand \div 2,
                         \/ s
                         \/ r[1] % (Thousand \div 2) # 0
                         \/ \E i \in 2..Len(r) : r[i] # 0) :
                 y \in {Halved(x, RoundStep(x))},
                 r \in {HalvedRest(x, RoundStep(x))},
                 s \in {sticky \/ rnd}})

\* float64(x) of an integer x
Float64(x) == Pick({RoundBits(y, 0, FALSE, FALSE) : y \in {x}})

\* the integer a float64 is, the fraction dropped: uint64(f)
Uint64(f) ==
    Pick({IF y.e >= 0 THEN TimesPowTwo(y.m, y.e) ELSE ShiftRight(y.m, 0 - y.e) :
            y \in {f}})

\* a * b of two float64
FloatMul(a, b) ==
    Pick({Pick({RoundBits(p, x.e + y.e, FALSE, FALSE) :
            p \in {NumMul(x.m, y.m)}}) : x \in {a}, y \in {b}})

\* the leading digits of x, those from Thousand^k on, as an integer
Leading(x, k) == IF Len(x) <= k THEN 0 ELSE NumVal(SubSeq(x, 1, Len(x) - k))

\* the digit t of a quotient, t * d <= r < (t + 1) * d for an r below
\* d * Thousand: the leading digits of r and d tell it to within two
QuotientDigit(r, d) ==
    CHOOSE t \in (IF Len(d) <= 2 THEN Leading(r, 0) \div Leading(d, 0)
                  ELSE Leading(r, Len(d) - 2) \div (Leading(d, Len(d) - 2) + 1))
                 ..(Leading(r, Max(Len(d) - 2, 0)) \div Leading(d, Max(Len(d) - 2, 0))) :
        /\ ~NumLess(r, NumTimes(d, t))
        /\ NumLess(r, NumTimes(d, t + 1))

\* the digit of the quotient and what is left of r
DivStep(r, d) ==
    Pick({<<t, NumSub(r, NumTimes(d, t))>> : t \in {QuotientDigit(r, d)}})

\* long division of n by d, digit i of n taken down next: q the quotient so
\* far and r what is left
RECURSIVE DivFrom(_, _, _, _, _)
DivFrom(n, d, i, q, r) ==
    IF i > Len(n) THEN [q |-> Norm(q), r |-> r]
    ELSE Pick({DivFrom(n, d, i + 1, Append(q, t[1]), t[2]) :
                 t \in {DivStep(Norm(Append(r, n[i])), d)}})

\* n / d and what is left, d above zero
DivMod(n, d) ==
    IF NumLess(n, d) THEN [q |-> <<>>, r |-> n]
    ELSE DivFrom(n, d, Len(d), <<>>, SubSeq(n, 1, Len(d) - 1))

\* the bits n is moved up by for a quotient n * 2^g / d of 55 bits and more
QuotientBits(n, d) == 54 + 10 * Max(Len(d) - Len(n) + 1, 0)

\* n / d of two float64 that are integers, n and d above zero
FloatDiv(n, d) ==
    Pick({RoundBits(qr.q, 0 - QuotientBits(n, d), FALSE, Len(qr.r) > 0) :
            qr \in {Pick({DivMod(m, d) : m \in {TimesPowTwo(n, QuotientBits(n, d))}})}})

\* ------------------------------------------------------------ Duration
\* A time.Duration (an int64 of nanoseconds) is its sign and its magnitude.
\* A quarter of time.Second in nanoseconds:
QuarterNs == 1000000000 \div Second

Dur(neg, mag) == [neg |-> neg /\ Len(mag) > 0, mag |-> mag]

\* the Duration of n quarter seconds, n a small integer
Quarters(n) ==
    Dur(n < 0, Shift(NumTimes(Num(IF n < 0 THEN 0 - n ELSE n), QuarterNs \div Thousand), 1))

\* the whole quarter seconds of a Duration that is not negative and small
Ticks(d) ==
    Second * Leading(d.mag, 3)
    + NumVal(SubSeq(d.mag, Max(Len(d.mag) - 2, 1), Len(d.mag))) \div QuarterNs

\* a < b of two Durations
DurLess(a, b) ==
    IF a.neg /\ b.neg THEN NumLess(b.mag, a.mag)
    ELSE IF a.neg \/ b.neg THEN a.neg
    ELSE NumLess(a.mag, b.mag)

\* "d - time.Duration(d.Nanoseconds())%time.Second": d without what is
\* left of it after whole seconds
WholeSeconds(d) ==
    IF Len(d.mag) <= 3 THEN Dur(FALSE, <<>>)
    ELSE Dur(d.neg, SubSeq(d.mag, 1, Len(d.mag) - 3) \o <<0, 0, 0>>)

\* ---------------------------------------------- ConstantDelaySchedule
\* durations below one second are left as they are, but not below zero
ClampAtZero(duration) == IF duration.neg THEN Quarters(0) ELSE duration

\* "if duration < time.Second { duration = time.Second }"
Clamp(duration) ==
    IF DurLess(duration, Quarters(Second)) THEN Quarters(Second) ELSE duration

\* Every(duration): the delay without its sub-second part
Every(duration) == [type |-> "every", Delay |-> WholeSeconds(Clamp(duration))]

\* ConstantDelaySchedule.Next: t.Add(Delay - t.Nanosecond())
ConstantDelayNext(sch, u) == AddTicks(u, Ticks(sch.Delay) - u.ns)

\* ------------------------------------------------------- SpecSchedule
\* "1<<uint(v) & bits": bit v of a field is set
Bit(bits, v) == v \in bits

\* the bits of the values a..b
Range(a, b) == a..b

\* all values of a field and the star bit, as the parser sets for "*"
Star(a, b) == Range(a, b) \cup {starBit}

SpecSchedule(second, minute, hour, dayofmonth, month, dayofweek) ==
    [type |-> "spec", Second |-> second, Minute |-> minute, Hour |-> hour,
     Dom |-> dayofmonth, Month |-> month, Dow |-> dayofweek]

\* the day rule with AND in both cases
dayMatchesAnd(sch, u) == Bit(sch.Dom, u.d) /\ Bit(sch.Dow, Weekday(u))

dayMatches(sch, u) ==
    LET domMatch == Bit(sch.Dom, u.d)
        dowMatch == Bit(sch.Dow, Weekday(u))
    IN  IF Bit(sch.Dom, starBit) \/ Bit(sch.Dow, starBit)
        THEN domMatch /\ dowMatch
        ELSE domMatch \/ dowMatch

\* the search goes on whatever the year
PastLimitNever(y, limit) == FALSE

\* "if t.Year() > yearLimit"
PastLimit(y, limit) == y > limit

\* time.Date(t.Year(), t.Month(), 1, 0, 0, 0, 0, loc) and its finer forms
StartOfMonth(u) == Instant(u.y, u.mo, 1, 0, 0, 0, 0)
StartOfDay(u) == Instant(u.y, u.mo, u.d, 0, 0, 0, 0)
StartOfHour(u) == Instant(u.y, u.mo, u.d, u.h, 0, 0, 0)

\* t.Truncate(time.Minute), t.Truncate(time.Second)
TruncateMinute(u) == [u EXCEPT !.s = 0, !.ns = 0]
TruncateSecond(u) == [u EXCEPT !.ns = 0]

\* the hour of the day loop after AddDate: 24-h hours more if past noon, h
\* hours less otherwise, nothing at midnight
FixHour(u) ==
    IF u.h = 0 THEN u
    ELSE IF u.h > 12 THEN AddDate([u EXCEPT !.h = 0], 0, 1)
    ELSE [u EXCEPT !.h = 0]

\* Next is called: t = t.Add(1s - t.Nanosecond()), added := false,
\* yearLimit := t.Year() + 5
SpecNextBegin ==
    /\ label = "call"
    /\ schedule.type = "spec"
    /\ tcur' = AddTicks(instant, Second - instant.ns)
    /\ added' = FALSE
    /\ yearLimit' = tcur'.y + HorizonYears
    /\ label' = "wrap"
    /\ UNCHANGED <<schedule, instant>>
    /\ UNCHANGED <<engineVars, chainVars, parseVars>>

\* the label WRAP
SpecNextWrap ==
    /\ label = "wrap"
    /\ IF PastLimit(tcur.y, yearLimit)
       THEN tcur' = ZeroInstant /\ label' = "done"
       ELSE tcur' = tcur /\ label' = "month"
    /\ UNCHANGED <<schedule, instant, added, yearLimit>>
    /\ UNCHANGED <<engineVars, chainVars, parseVars>>

\* one test of a field loop: the field matches and the next loop begins, or
\* the body runs: the finer fields are zeroed the first time, the field is
\* advanced, and a wrap of the field restarts at WRAP
FieldLoop(here, matches, advanced, wrapped, below) ==
    /\ label = here
    /\ IF matches
       THEN /\ label' = below
            /\ UNCHANGED <<tcur, added>>
       ELSE /\ added' = TRUE
            /\ tcur' = advanced
            /\ label' = IF wrapped THEN "wrap" ELSE here
    /\ UNCHANGED <<schedule, instant, yearLimit>>
    /\ UNCHANGED <<engineVars, chainVars, parseVars>>

SpecNextMonth ==
    LET z == IF added THEN tcur ELSE StartOfMonth(tcur)
        n == AddDate(z, 1, 0)
    IN  FieldLoop("month", Bit(schedule.Month, tcur.mo), n, n.mo = 1, "day")

SpecNextDay ==
    LET z == IF added THEN tcur ELSE StartOfDay(tcur)
        n == FixHour(AddDate(z, 0, 1))
    IN  FieldLoop("day", dayMatches(schedule, tcur), n, n.d = 1, "hour")

SpecNextHour ==
    LET z == IF added THEN tcur ELSE StartOfHour(tcur)
        n == AddHour(z)
    IN  FieldLoop("hour", Bit(schedule.Hour, tcur.h), n, n.h = 0, "minute")

SpecNextMinute ==
    LET z == IF added THEN tcur ELSE TruncateMinute(tcur)
        n == AddMinute(z)
    IN  FieldLoop("minute", Bit(schedule.Minute, tcur.mi), n, n.mi = 0, "second")

SpecNextSecond ==
    LET z == IF added THEN tcur ELSE TruncateSecond(tcur)
        n == AddSecond(z)
    IN  FieldLoop("second", Bit(schedule.Second, tcur.s), n, n.s = 0, "done")

\* ConstantDelaySchedule.Next is called and returns
EveryNext ==
    /\ label = "call"
    /\ schedule.type = "every"
    /\ tcur' = ConstantDelayNext(schedule, instant)
    /\ label' = "done"
    /\ UNCHANGED <<schedule, instant, added, yearLimit>>
    /\ UNCHANGED <<engineVars, chainVars, parseVars>>

\* ------------------------------------------------- the inputs of Next
\* the dates and the times of day Next is called at: month ends, a leap day,
\* the last day of a year; midnight and the last second, on and off a
\* whole second
InstDates ==
    {<<2096, 1, 1>>, <<2096, 2, 28>>, <<2096, 2, 29>>, <<2096, 12, 31>>,
     <<2098, 2, 28>>, <<2098, 4, 30>>, <<2098, 12, 31>>}

InstTimes == {<<0, 0, 0>>, <<0, 0, 59>>, <<12, 59, 59>>, <<23, 59, 58>>, <<23, 59, 59>>}

Instants ==
    {Instant(dt[1], dt[2], dt[3], tm[1], tm[2], tm[3], ns) :
        dt \in InstDates, tm \in InstTimes, ns \in {0, Second - 1}}

\* second, minute and hour fields
TimeFields ==
    {<<{0}, {0}, {0}>>,
     <<{0, 59}, {0, 59}, {0, 23}>>,
     <<{30}, {59}, {12}>>,
     <<Range(0, 59), Range(0, 59), Range(0, 23)>>}

\* day-of-month, month and day-of-week fields: every day; February 29;
\* February 30 and the 31st of the 30-day months, which never come; the
\* 31st; the 1st or a Sunday; January 1 if a Sunday; no day of February;
\* no month; Mondays
DateFields ==
    {<<Star(1, 31), Range(1, 12), Star(0, 6)>>,
     <<{29}, {2}, Star(0, 6)>>,
     <<{30}, {2}, Star(0, 6)>>,
     <<{31}, {4, 6, 9, 11}, Star(0, 6)>>,
     <<{31}, Range(1, 12), Star(0, 6)>>,
     <<{1}, Range(1, 12), {0}>>,
     <<{1, starBit}, {1}, {0}>>,
     <<{starBit}, {2}, Star(0, 6)>>,
     <<Star(1, 31), {}, Star(0, 6)>>,
     <<Star(1, 31), Range(1, 12), {1}>>}

SpecSchedules ==
    {SpecSchedule(tf[1], tf[2], tf[3], df[1], df[2], df[3]) :
        tf \in TimeFields, df \in DateFields}

\* the durations given to Every: negative, zero, below one second, one
\* second, and more with and without a sub-second part
EveryDurations ==
    {Quarters(n) : n \in {0 - Second, 0, 1, Second - 1, Second, Second + 1, 2 * Second + 1}}

Schedules == SpecSchedules \cup {Every(d) : d \in EveryDurations}

InitSched ==
    /\ EngineInit
    /\ ChainUnused
    /\ ParseUnused
    /\ schedule \in Schedules
    /\ instant \in Instants
    /\ tcur = instant
    /\ added = FALSE
    /\ yearLimit = 0
    /\ label = "call"

NextSched ==
    \/ SpecNextBegin
    \/ SpecNextWrap
    \/ SpecNextMonth
    \/ SpecNextDay
    \/ SpecNextHour
    \/ SpecNextMinute
    \/ SpecNextSecond
    \/ EveryNext

SpecSched == InitSched /\ [][NextSched]_vars

\* =============================================================== parser
\* A Go string is the sequence of its characters; indices count from 0 as
\* in the source.
Digits == <<"0", "1", "2", "3", "4", "5", "6", "7", "8", "9">>

Upper == <<"A", "B", "C", "D", "E", "F", "G", "H", "I", "J", "K", "L", "M", "N", "O", "P", "Q", "R", "S", "T", "U", "V", "W", "X", "Y", "Z">>

Lower == <<"a", "b", "c", "d", "e", "f", "g", "h", "i", "j", "k", "l", "m", "n", "o", "p", "q", "r", "s", "t", "u", "v", "w", "x", "y", "z">>

IsDigit(c) == \E i \in 1..10 : Digits[i] = c

DigitVal(c) == (CHOOSE i \in 1..10 : Digits[i] = c) - 1

\* characters outside ASCII and the vertical tab, named by their code point
VT     == "U+000B"
NEL    == "U+0085"
NBSP   == "U+00A0"
Micro  == "U+00B5"
IDot   == "U+0130"
Mu     == "U+03BC"
Kelvin == "U+212A"

\* upper-case letters outside ASCII and what unicode.ToLower makes of them,
\* one for one: the letters of the Unicode tables that have a lower-case
\* mapping. The dotted capital I and the Kelvin sign become the ASCII letters
\* i and k
UpperOther ==
    <<"U+00C0", "U+00C1", "U+00C2", "U+00C3", "U+00C4", "U+00C5", "U+00C6", "U+00C7",
      "U+00C8", "U+00C9", "U+00CA", "U+00CB", "U+00CC", "U+00CD", "U+00CE", "U+00CF",
      "U+00D0", "U+00D1", "U+00D2", "U+00D3", "U+00D4", "U+00D5", "U+00D6", "U+00D8",
      "U+00D9", "U+00DA", "U+00DB", "U+00DC", "U+00DD", "U+00DE", "U+0100", "U+0102",
      "U+0104", "U+0106", "U+0108", "U+010A", "U+010C", "U+010E", "U+0110", "U+0112",
      "U+0114", "U+0116", "U+0118", "U+011A", "U+011C", "U+011E", "U+0120", "U+0122",
      "U+0124", "U+0126", "U+0128", "U+012A", "U+012C", "U+012E", IDot, "U+0132",
      "U+0134", "U+0136", "U+0139", "U+013B", "U+013D", "U+013F", "U+0141", "U+0143",
      "U+0145", "U+0147", "U+014A", "U+014C", "U+014E", "U+0150", "U+0152", "U+0154",
      "U+0156", "U+0158", "U+015A", "U+015C", "U+015E", "U+0160", "U+0162", "U+0164",
      "U+0166", "U+0168", "U+016A", "U+016C", "U+016E", "U+0170", "U+0172", "U+0174",
      "U+0176", "U+0178", "U+0179", "U+017B", "U+017D", "U+0181", "U+0182", "U+0184",
      "U+0186", "U+0187", "U+0189", "U+018A", "U+018B", "U+018E", "U+018F", "U+0190",
      "U+0191", "U+0193", "U+0194", "U+0196", "U+0197", "U+0198", "U+019C", "U+019D",
      "U+019F", "U+01A0", "U+01A2", "U+01A4", "U+01A6", "U+01A7", "U+01A9", "U+01AC",
      "U+01AE", "U+01AF", "U+01B1", "U+01B2", "U+01B3", "U+01B5", "U+01B7", "U+01B8",
      "U+01BC", "U+01C4", "U+01C5", "U+01C7", "U+01C8", "U+01CA", "U+01CB", "U+01CD",
      "U+01CF", "U+01D1", "U+01D3", "U+01D5", "U+01D7", "U+01D9", "U+01DB", "U+01DE",
      "U+01E0", "U+01E2", "U+01E4", "U+01E6", "U+01E8", "U+01EA", "U+01EC", "U+01EE",
      "U+01F1", "U+01F2", "U+01F4", "U+01F6", "U+01F7", "U+01F8", "U+01FA", "U+01FC",
      "U+01FE", "U+0200", "U+0202", "U+0204", "U+0206", "U+0208", "U+020A", "U+020C",
      "U+020E", "U+0210", "U+0212", "U+0214", "U+0216", "U+0218", "U+021A", "U+021C",
      "U+021E", "U+0220", "U+0222", "U+0224", "U+0226", "U+0228", "U+022A", "U+022C",
      "U+022E", "U+0230", "U+0232", "U+023A", "U+023B", "U+023D", "U+023E", "U+0241",
      "U+0243", "U+0244", "U+0245", "U+0246", "U+0248", "U+024A", "U+024C", "U+024E",
      "U+0370", "U+0372", "U+0376", "U+037F", "U+0386", "U+0388", "U+0389", "U+038A",
      "U+038C", "U+038E", "U+038F", "U+0391", "U+0392", "U+0393", "U+0394", "U+0395",
      "U+0396", "U+0397", "U+0398", "U+0399", "U+039A", "U+039B", "U+039C", "U+039D",
      "U+039E", "U+039F", "U+03A0", "U+03A1", "U+03A3", "U+03A4", "U+03A5", "U+03A6",
      "U+03A7", "U+03A8", "U+03A9", "U+03AA", "U+03AB", "U+03CF", "U+03D8", "U+03DA",
      "U+03DC", "U+03DE", "U+03E0", "U+03E2", "U+03E4", "U+03E6", "U+03E8", "U+03EA",
      "U+03EC", "U+03EE", "U+03F4", "U+03F7", "U+03F9", "U+03FA", "U+03FD", "U+03FE",
      "U+03FF", "U+0400", "U+0401", "U+0402", "U+0403", "U+0404", "U+0405", "U+0406",
      "U+0407", "U+0408", "U+0409", "U+040A", "U+040B", "U+040C", "U+040D", "U+040E",
      "U+040F", "U+0410", "U+0411", "U+0412", "U+0413", "U+0414", "U+0415", "U+0416",
      "U+0417", "U+0418", "U+0419", "U+041A", "U+041B", "U+041C", "U+041D", "U+041E",
      "U+041F", "U+0420", "U+0421", "U+0422", "U+0423", "U+0424", "U+0425", "U+0426",
      "U+0427", "U+0428", "U+0429", "U+042A", "U+042B", "U+042C", "U+042D", "U+042E",
      "U+042F", "U+0460", "U+0462", "U+0464", "U+0466", "U+0468", "U+046A", "U+046C",
      "U+046E", "U+0470", "U+0472", "U+0474", "U+0476", "U+0478", "U+047A", "U+047C",
      "U+047E", "U+0480", "U+048A", "U+048C", "U+048E", "U+0490", "U+0492", "U+0494",
      "U+0496", "U+0498", "U+049A", "U+049C", "U+049E", "U+04A0", "U+04A2", "U+04A4",
      "U+04A6", "U+04A8", "U+04AA", "U+04AC", "U+04AE", "U+04B0", "U+04B2", "U+04B4",
      "U+04B6", "U+04B8", "U+04BA", "U+04BC", "U+04BE", "U+04C0", "U+04C1", "U+04C3",
      "U+04C5", "U+04C7", "U+04C9", "U+04CB", "U+04CD", "U+04D0", "U+04D2", "U+04D4",
      "U+04D6", "U+04D8", "U+04DA", "U+04DC", "U+04DE", "U+04E0", "U+04E2", "U+04E4",
      "U+04E6", "U+04E8", "U+04EA", "U+04EC", "U+04EE", "U+04F0", "U+04F2", "U+04F4",
      "U+04F6", "U+04F8", "U+04FA", "U+04FC", "U+04FE", "U+0500", "U+0502", "U+0504",
      "U+0506", "U+0508", "U+050A", "U+050C", "U+050E", "U+0510", "U+0512", "U+0514",
      "U+0516", "U+0518", "U+051A", "U+051C", "U+051E", "U+0520", "U+0522", "U+0524",
      "U+0526", "U+0528", "U+052A", "U+052C", "U+052E", "U+0531", "U+0532", "U+0533",
      "U+0534", "U+0535", "U+0536", "U+0537", "U+0538", "U+0539", "U+053A", "U+053B",
      "U+053C", "U+053D", "U+053E", "U+053F", "U+0540", "U+0541", "U+0542", "U+0543",
      "U+0544", "U+0545", "U+0546", "U+0547", "U+0548", "U+0549", "U+054A", "U+054B",
      "U+054C", "U+054D", "U+054E", "U+054F", "U+0550", "U+0551", "U+0552", "U+0553",
      "U+0554", "U+0555", "U+0556", "U+10A0", "U+10A1", "U+10A2", "U+10A3", "U+10A4",
      "U+10A5", "U+10A6", "U+10A7", "U+10A8", "U+10A9", "U+10AA", "U+10AB", "U+10AC",
      "U+10AD", "U+10AE", "U+10AF", "U+10B0", "U+10B1", "U+10B2", "U+10B3", "U+10B4",
      "U+10B5", "U+10B6", "U+10B7", "U+10B8", "U+10B9", "U+10BA", "U+10BB", "U+10BC",
      "U+10BD", "U+10BE", "U+10BF", "U+10C0", "U+10C1", "U+10C2", "U+10C3", "U+10C4",
      "U+10C5", "U+10C7", "U+10CD", "U+13A0", "U+13A1", "U+13A2", "U+13A3", "U+13A4",
      "U+13A5", "U+13A6", "U+13A7", "U+13A8", "U+13A9", "U+13AA", "U+13AB", "U+13AC",
      "U+13AD", "U+13AE", "U+13AF", "U+13B0", "U+13B1", "U+13B2", "U+13B3", "U+13B4",
      "U+13B5", "U+13B6", "U+13B7", "U+13B8", "U+13B9", "U+13BA", "U+13BB", "U+13BC",
      "U+13BD", "U+13BE", "U+13BF", "U+13C0", "U+13C1", "U+13C2", "U+13C3", "U+13C4",
      "U+13C5", "U+13C6", "U+13C7", "U+13C8", "U+13C9", "U+13CA", "U+13CB", "U+13CC",
      "U+13CD", "U+13CE", "U+13CF", "U+13D0", "U+13D1", "U+13D2", "U+13D3", "U+13D4",
      "U+13D5", "U+13D6", "U+13D7", "U+13D8", "U+13D9", "U+13DA", "U+13DB", "U+13DC",
      "U+13DD", "U+13DE", "U+13DF", "U+13E0", "U+13E1", "U+13E2", "U+13E3", "U+13E4",
      "U+13E5", "U+13E6", "U+13E7", "U+13E8", "U+13E9", "U+13EA", "U+13EB", "U+13EC",
      "U+13ED", "U+13EE", "U+13EF", "U+13F0", "U+13F1", "U+13F2", "U+13F3", "U+13F4",
      "U+13F5", "U+1C90", "U+1C91", "U+1C92", "U+1C93", "U+1C94", "U+1C95", "U+1C96",
      "U+1C97", "U+1C98", "U+1C99", "U+1C9A", "U+1C9B", "U+1C9C", "U+1C9D", "U+1C9E",
      "U+1C9F", "U+1CA0", "U+1CA1", "U+1CA2", "U+1CA3", "U+1CA4", "U+1CA5", "U+1CA6",
      "U+1CA7", "U+1CA8", "U+1CA9", "U+1CAA", "U+1CAB", "U+1CAC", "U+1CAD", "U+1CAE",
      "U+1CAF", "U+1CB0", "U+1CB1", "U+1CB2", "U+1CB3", "U+1CB4", "U+1CB5", "U+1CB6",
      "U+1CB7", "U+1CB8", "U+1CB9", "U+1CBA", "U+1CBD", "U+1CBE", "U+1CBF", "U+1E00",
      "U+1E02", "U+1E04", "U+1E06", "U+1E08", "U+1E0A", "U+1E0C", "U+1E0E", "U+1E10",
      "U+1E12", "U+1E14", "U+1E16", "U+1E18", "U+1E1A", "U+1E1C", "U+1E1E", "U+1E20",
      "U+1E22", "U+1E24", "U+1E26", "U+1E28", "U+1E2A", "U+1E2C", "U+1E2E", "U+1E30",
      "U+1E32", "U+1E34", "U+1E36", "U+1E38", "U+1E3A", "U+1E3C", "U+1E3E", "U+1E40",
      "U+1E42", "U+1E44", "U+1E46", "U+1E48", "U+1E4A", "U+1E4C", "U+1E4E", "U+1E50",
      "U+1E52", "U+1E54", "U+1E56", "U+1E58", "U+1E5A", "U+1E5C", "U+1E5E", "U+1E60",
      "U+1E62", "U+1E64", "U+1E66", "U+1E68", "U+1E6A", "U+1E6C", "U+1E6E", "U+1E70",
      "U+1E72", "U+1E74", "U+1E76", "U+1E78", "U+1E7A", "U+1E7C", "U+1E7E", "U+1E80",
      "U+1E82", "U+1E84", "U+1E86", "U+1E88", "U+1E8A", "U+1E8C", "U+1E8E", "U+1E90",
      "U+1E92", "U+1E94", "U+1E9E", "U+1EA0", "U+1EA2", "U+1EA4", "U+1EA6", "U+1EA8",
      "U+1EAA", "U+1EAC", "U+1EAE", "U+1EB0", "U+1EB2", "U+1EB4", "U+1EB6", "U+1EB8",
      "U+1EBA", "U+1EBC", "U+1EBE", "U+1EC0", "U+1EC2", "U+1EC4", "U+1EC6", "U+1EC8",
      "U+1ECA", "U+1ECC", "U+1ECE", "U+1ED0", "U+1ED2", "U+1ED4", "U+1ED6", "U+1ED8",
      "U+1EDA", "U+1EDC", "U+1EDE", "U+1EE0", "U+1EE2", "U+1EE4", "U+1EE6", "U+1EE8",
      "U+1EEA", "U+1EEC", "U+1EEE", "U+1EF0", "U+1EF2", "U+1EF4", "U+1EF6", "U+1EF8",
      "U+1EFA", "U+1EFC", "U+1EFE", "U+1F08", "U+1F09", "U+1F0A", "U+1F0B", "U+1F0C",
      "U+1F0D", "U+1F0E", "U+1F0F", "U+1F18", "U+1F19", "U+1F1A", "U+1F1B", "U+1F1C",
      "U+1F1D", "U+1F28", "U+1F29", "U+1F2A", "U+1F2B", "U+1F2C", "U+1F2D", "U+1F2E",
      "U+1F2F", "U+1F38", "U+1F39", "U+1F3A", "U+1F3B", "U+1F3C", "U+1F3D", "U+1F3E",
      "U+1F3F", "U+1F48", "U+1F49", "U+1F4A", "U+1F4B", "U+1F4C", "U+1F4D", "U+1F59",
      "U+1F5B", "U+1F5D", "U+1F5F", "U+1F68", "U+1F69", "U+1F6A", "U+1F6B", "U+1F6C",
      "U+1F6D", "U+1F6E", "U+1F6F", "U+1F88", "U+1F89", "U+1F8A", "U+1F8B", "U+1F8C",
      "U+1F8D", "U+1F8E", "U+1F8F", "U+1F98", "U+1F99", "U+1F9A", "U+1F9B", "U+1F9C",
      "U+1F9D", "U+1F9E", "U+1F9F", "U+1FA8", "U+1FA9", "U+1FAA", "U+1FAB", "U+1FAC",
      "U+1FAD", "U+1FAE", "U+1FAF", "U+1FB8", "U+1FB9", "U+1FBA", "U+1FBB", "U+1FBC",
      "U+1FC8", "U+1FC9", "U+1FCA", "U+1FCB", "U+1FCC", "U+1FD8", "U+1FD9", "U+1FDA",
      "U+1FDB", "U+1FE8", "U+1FE9", "U+1FEA", "U+1FEB", "U+1FEC", "U+1FF8", "U+1FF9",
      "U+1FFA", "U+1FFB", "U+1FFC", "U+2126", Kelvin, "U+212B", "U+2132", "U+2160",
      "U+2161", "U+2162", "U+2163", "U+2164", "U+2165", "U+2166", "U+2167", "U+2168",
      "U+2169", "U+216A", "U+216B", "U+216C", "U+216D", "U+216E", "U+216F", "U+2183",
      "U+24B6", "U+24B7", "U+24B8", "U+24B9", "U+24BA", "U+24BB", "U+24BC", "U+24BD",
      "U+24BE", "U+24BF", "U+24C0", "U+24C1", "U+24C2", "U+24C3", "U+24C4", "U+24C5",
      "U+24C6", "U+24C7", "U+24C8", "U+24C9", "U+24CA", "U+24CB", "U+24CC", "U+24CD",
      "U+24CE", "U+24CF", "U+2C00", "U+2C01", "U+2C02", "U+2C03", "U+2C04", "U+2C05",
      "U+2C06", "U+2C07", "U+2C08", "U+2C09", "U+2C0A", "U+2C0B", "U+2C0C", "U+2C0D",
      "U+2C0E", "U+2C0F", "U+2C10", "U+2C11", "U+2C12", "U+2C13", "U+2C14", "U+2C15",
      "U+2C16", "U+2C17", "U+2C18", "U+2C19", "U+2C1A", "U+2C1B", "U+2C1C", "U+2C1D",
      "U+2C1E", "U+2C1F", "U+2C20", "U+2C21", "U+2C22", "U+2C23", "U+2C24", "U+2C25",
      "U+2C26", "U+2C27", "U+2C28", "U+2C29", "U+2C2A", "U+2C2B", "U+2C2C", "U+2C2D",
      "U+2C2E", "U+2C2F", "U+2C60", "U+2C62", "U+2C63", "U+2C64", "U+2C67", "U+2C69",
      "U+2C6B", "U+2C6D", "U+2C6E", "U+2C6F", "U+2C70", "U+2C72", "U+2C75", "U+2C7E",
      "U+2C7F", "U+2C80", "U+2C82", "U+2C84", "U+2C86", "U+2C88", "U+2C8A", "U+2C8C",
      "U+2C8E", "U+2C90", "U+2C92", "U+2C94", "U+2C96", "U+2C98", "U+2C9A", "U+2C9C",
      "U+2C9E", "U+2CA0", "U+2CA2", "U+2CA4", "U+2CA6", "U+2CA8", "U+2CAA", "U+2CAC",
      "U+2CAE", "U+2CB0", "U+2CB2", "U+2CB4", "U+2CB6", "U+2CB8", "U+2CBA", "U+2CBC",
      "U+2CBE", "U+2CC0", "U+2CC2", "U+2CC4", "U+2CC6", "U+2CC8", "U+2CCA", "U+2CCC",
      "U+2CCE", "U+2CD0", "U+2CD2", "U+2CD4", "U+2CD6", "U+2CD8", "U+2CDA", "U+2CDC",
      "U+2CDE", "U+2CE0", "U+2CE2", "U+2CEB", "U+2CED", "U+2CF2", "U+A640", "U+A642",
      "U+A644", "U+A646", "U+A648", "U+A64A", "U+A64C", "U+A64E", "U+A650", "U+A652",
      "U+A654", "U+A656", "U+A658", "U+A65A", "U+A65C", "U+A65E", "U+A660", "U+A662",
      "U+A664", "U+A666", "U+A668", "U+A66A", "U+A66C", "U+A680", "U+A682", "U+A684",
      "U+A686", "U+A688", "U+A68A", "U+A68C", "U+A68E", "U+A690", "U+A692", "U+A694",
      "U+A696", "U+A698", "U+A69A", "U+A722", "U+A724", "U+A726", "U+A728", "U+A72A",
      "U+A72C", "U+A72E", "U+A732", "U+A734", "U+A736", "U+A738", "U+A73A", "U+A73C",
      "U+A73E", "U+A740", "U+A742", "U+A744", "U+A746", "U+A748", "U+A74A", "U+A74C",
      "U+A74E", "U+A750", "U+A752", "U+A754", "U+A756", "U+A758", "U+A75A", "U+A75C",
      "U+A75E", "U+A760", "U+A762", "U+A764", "U+A766", "U+A768", "U+A76A", "U+A76C",
      "U+A76E", "U+A779", "U+A77B", "U+A77D", "U+A77E", "U+A780", "U+A782", "U+A784",
      "U+A786", "U+A78B", "U+A78D", "U+A790", "U+A792", "U+A796", "U+A798", "U+A79A",
      "U+A79C", "U+A79E", "U+A7A0", "U+A7A2", "U+A7A4", "U+A7A6", "U+A7A8", "U+A7AA",
      "U+A7AB", "U+A7AC", "U+A7AD", "U+A7AE", "U+A7B0", "U+A7B1", "U+A7B2", "U+A7B3",
      "U+A7B4", "U+A7B6", "U+A7B8", "U+A7BA", "U+A7BC", "U+A7BE", "U+A7C0", "U+A7C2",
      "U+A7C4", "U+A7C5", "U+A7C6", "U+A7C7", "U+A7C9", "U+A7D0", "U+A7D6", "U+A7D8",
      "U+A7F5", "U+FF21", "U+FF22", "U+FF23", "U+FF24", "U+FF25", "U+FF26", "U+FF27",
      "U+FF28", "U+FF29", "U+FF2A", "U+FF2B", "U+FF2C", "U+FF2D", "U+FF2E", "U+FF2F",
      "U+FF30", "U+FF31", "U+FF32", "U+FF33", "U+FF34", "U+FF35", "U+FF36", "U+FF37",
      "U+FF38", "U+FF39", "U+FF3A", "U+10400", "U+10401", "U+10402", "U+10403", "U+10404",
      "U+10405", "U+10406", "U+10407", "U+10408", "U+10409", "U+1040A", "U+1040B", "U+1040C",
      "U+1040D", "U+1040E", "U+1040F", "U+10410", "U+10411", "U+10412", "U+10413", "U+10414",
      "U+10415", "U+10416", "U+10417", "U+10418", "U+10419", "U+1041A", "U+1041B", "U+1041C",
      "U+1041D", "U+1041E", "U+1041F", "U+10420", "U+10421", "U+10422", "U+10423", "U+10424",
      "U+10425", "U+10426", "U+10427", "U+104B0", "U+104B1", "U+104B2", "U+104B3", "U+104B4",
      "U+104B5", "U+104B6", "U+104B7", "U+104B8", "U+104B9", "U+104BA", "U+104BB", "U+104BC",
      "U+104BD", "U+104BE", "U+104BF", "U+104C0", "U+104C1", "U+104C2", "U+104C3", "U+104C4",
      "U+104C5", "U+104C6", "U+104C7", "U+104C8", "U+104C9", "U+104CA", "U+104CB", "U+104CC",
      "U+104CD", "U+104CE", "U+104CF", "U+104D0", "U+104D1", "U+104D2", "U+104D3", "U+10570",
      "U+10571", "U+10572", "U+10573", "U+10574", "U+10575", "U+10576", "U+10577", "U+10578",
      "U+10579", "U+1057A", "U+1057C", "U+1057D", "U+1057E", "U+1057F", "U+10580", "U+10581",
      "U+10582", "U+10583", "U+10584", "U+10585", "U+10586", "U+10587", "U+10588", "U+10589",
      "U+1058A", "U+1058C", "U+1058D", "U+1058E", "U+1058F", "U+10590", "U+10591", "U+10592",
      "U+10594", "U+10595", "U+10C80", "U+10C81", "U+10C82", "U+10C83", "U+10C84", "U+10C85",
      "U+10C86", "U+10C87", "U+10C88", "U+10C89", "U+10C8A", "U+10C8B", "U+10C8C", "U+10C8D",
      "U+10C8E", "U+10C8F", "U+10C90", "U+10C91", "U+10C92", "U+10C93", "U+10C94", "U+10C95",
      "U+10C96", "U+10C97", "U+10C98", "U+10C99", "U+10C9A", "U+10C9B", "U+10C9C", "U+10C9D",
      "U+10C9E", "U+10C9F", "U+10CA0", "U+10CA1", "U+10CA2", "U+10CA3", "U+10CA4", "U+10CA5",
      "U+10CA6", "U+10CA7", "U+10CA8", "U+10CA9", "U+10CAA", "U+10CAB", "U+10CAC", "U+10CAD",
      "U+10CAE", "U+10CAF", "U+10CB0", "U+10CB1", "U+10CB2", "U+118A0", "U+118A1", "U+118A2",
      "U+118A3", "U+118A4", "U+118A5", "U+118A6", "U+118A7", "U+118A8", "U+118A9", "U+118AA",
      "U+118AB", "U+118AC", "U+118AD", "U+118AE", "U+118AF", "U+118B0", "U+118B1", "U+118B2",
      "U+118B3", "U+118B4", "U+118B5", "U+118B6", "U+118B7", "U+118B8", "U+118B9", "U+118BA",
      "U+118BB", "U+118BC", "U+118BD", "U+118BE", "U+118BF", "U+16E40", "U+16E41", "U+16E42",
      "U+16E43", "U+16E44", "U+16E45", "U+16E46", "U+16E47", "U+16E48", "U+16E49", "U+16E4A",
      "U+16E4B", "U+16E4C", "U+16E4D", "U+16E4E", "U+16E4F", "U+16E50", "U+16E51", "U+16E52",
      "U+16E53", "U+16E54", "U+16E55", "U+16E56", "U+16E57", "U+16E58", "U+16E59", "U+16E5A",
      "U+16E5B", "U+16E5C", "U+16E5D", "U+16E5E", "U+16E5F", "U+1E900", "U+1E901", "U+1E902",
      "U+1E903", "U+1E904", "U+1E905", "U+1E906", "U+1E907", "U+1E908", "U+1E909", "U+1E90A",
      "U+1E90B", "U+1E90C", "U+1E90D", "U+1E90E", "U+1E90F", "U+1E910", "U+1E911", "U+1E912",
      "U+1E913", "U+1E914", "U+1E915", "U+1E916", "U+1E917", "U+1E918", "U+1E919", "U+1E91A",
      "U+1E91B", "U+1E91C", "U+1E91D", "U+1E91E", "U+1E91F", "U+1E920", "U+1E921">>

LowerOther ==
    <<"U+00E0", "U+00E1", "U+00E2", "U+00E3", "U+00E4", "U+00E5", "U+00E6", "U+00E7",
      "U+00E8", "U+00E9", "U+00EA", "U+00EB", "U+00EC", "U+00ED", "U+00EE", "U+00EF",
      "U+00F0", "U+00F1", "U+00F2", "U+00F3", "U+00F4", "U+00F5", "U+00F6", "U+00F8",
      "U+00F9", "U+00FA", "U+00FB", "U+00FC", "U+00FD", "U+00FE", "U+0101", "U+0103",
      "U+0105", "U+0107", "U+0109", "U+010B", "U+010D", "U+010F", "U+0111", "U+0113",
      "U+0115", "U+0117", "U+0119", "U+011B", "U+011D", "U+011F", "U+0121", "U+0123",
      "U+0125", "U+0127", "U+0129", "U+012B", "U+012D", "U+012F", "i", "U+0133",
      "U+0135", "U+0137", "U+013A", "U+013C", "U+013E", "U+0140", "U+0142", "U+0144",
      "U+0146", "U+0148", "U+014B", "U+014D", "U+014F", "U+0151", "U+0153", "U+0155",
      "U+0157", "U+0159", "U+015B", "U+015D", "U+015F", "U+0161", "U+0163", "U+0165",
      "U+0167", "U+0169", "U+016B", "U+016D", "U+016F", "U+0171", "U+0173", "U+0175",
      "U+0177", "U+00FF", "U+017A", "U+017C", "U+017E", "U+0253", "U+0183", "U+0185",
      "U+0254", "U+0188", "U+0256", "U+0257", "U+018C", "U+01DD", "U+0259", "U+025B",
      "U+0192", "U+0260", "U+0263", "U+0269", "U+0268", "U+0199", "U+026F", "U+0272",
      "U+0275", "U+01A1", "U+01A3", "U+01A5", "U+0280", "U+01A8", "U+0283", "U+01AD",
      "U+0288", "U+01B0", "U+028A", "U+028B", "U+01B4", "U+01B6", "U+0292", "U+01B9",
      "U+01BD", "U+01C6", "U+01C6", "U+01C9", "U+01C9", "U+01CC", "U+01CC", "U+01CE",
      "U+01D0", "U+01D2", "U+01D4", "U+01D6", "U+01D8", "U+01DA", "U+01DC", "U+01DF",
      "U+01E1", "U+01E3", "U+01E5", "U+01E7", "U+01E9", "U+01EB", "U+01ED", "U+01EF",
      "U+01F3", "U+01F3", "U+01F5", "U+0195", "U+01BF", "U+01F9", "U+01FB", "U+01FD",
      "U+01FF", "U+0201", "U+0203", "U+0205", "U+0207", "U+0209", "U+020B", "U+020D",
      "U+020F", "U+0211", "U+0213", "U+0215", "U+0217", "U+0219", "U+021B", "U+021D",
      "U+021F", "U+019E", "U+0223", "U+0225", "U+0227", "U+0229", "U+022B", "U+022D",
      "U+022F", "U+0231", "U+0233", "U+2C65", "U+023C", "U+019A", "U+2C66", "U+0242",
      "U+0180", "U+0289", "U+028C", "U+0247", "U+0249", "U+024B", "U+024D", "U+024F",
      "U+0371", "U+0373", "U+0377", "U+03F3", "U+03AC", "U+03AD", "U+03AE", "U+03AF",
      "U+03CC", "U+03CD", "U+03CE", "U+03B1", "U+03B2", "U+03B3", "U+03B4", "U+03B5",
      "U+03B6", "U+03B7", "U+03B8", "U+03B9", "U+03BA", "U+03BB", Mu, "U+03BD",
      "U+03BE", "U+03BF", "U+03C0", "U+03C1", "U+03C3", "U+03C4", "U+03C5", "U+03C6",
      "U+03C7", "U+03C8", "U+03C9", "U+03CA", "U+03CB", "U+03D7", "U+03D9", "U+03DB",
      "U+03DD", "U+03DF", "U+03E1", "U+03E3", "U+03E5", "U+03E7", "U+03E9", "U+03EB",
      "U+03ED", "U+03EF", "U+03B8", "U+03F8", "U+03F2", "U+03FB", "U+037B", "U+037C",
      "U+037D", "U+0450", "U+0451", "U+0452", "U+0453", "U+0454", "U+0455", "U+0456",
      "U+0457", "U+0458", "U+0459", "U+045A", "U+045B", "U+045C", "U+045D", "U+045E",
      "U+045F", "U+0430", "U+0431", "U+0432", "U+0433", "U+0434", "U+0435", "U+0436",
      "U+0437", "U+0438", "U+0439", "U+043A", "U+043B", "U+043C", "U+043D", "U+043E",
      "U+043F", "U+0440", "U+0441", "U+0442", "U+0443", "U+0444", "U+0445", "U+0446",
      "U+0447", "U+0448", "U+0449", "U+044A", "U+044B", "U+044C", "U+044D", "U+044E",
      "U+044F", "U+0461", "U+0463", "U+0465", "U+0467", "U+0469", "U+046B", "U+046D",
      "U+046F", "U+0471", "U+0473", "U+0475", "U+0477", "U+0479", "U+047B", "U+047D",
      "U+047F", "U+0481", "U+048B", "U+048D", "U+048F", "U+0491", "U+0493", "U+0495",
      "U+0497", "U+0499", "U+049B", "U+049D", "U+049F", "U+04A1", "U+04A3", "U+04A5",
      "U+04A7", "U+04A9", "U+04AB", "U+04AD", "U+04AF", "U+04B1", "U+04B3", "U+04B5",
      "U+04B7", "U+04B9", "U+04BB", "U+04BD", "U+04BF", "U+04CF", "U+04C2", "U+04C4",
      "U+04C6", "U+04C8", "U+04CA", "U+04CC", "U+04CE", "U+04D1", "U+04D3", "U+04D5",
      "U+04D7", "U+04D9", "U+04DB", "U+04DD", "U+04DF", "U+04E1", "U+04E3", "U+04E5",
      "U+04E7", "U+04E9", "U+04EB", "U+04ED", "U+04EF", "U+04F1", "U+04F3", "U+04F5",
      "U+04F7", "U+04F9", "U+04FB", "U+04FD", "U+04FF", "U+0501", "U+0503", "U+0505",
      "U+0507", "U+0509", "U+050B", "U+050D", "U+050F", "U+0511", "U+0513", "U+0515",
      "U+0517", "U+0519", "U+051B", "U+051D", "U+051F", "U+0521", "U+0523", "U+0525",
      "U+0527", "U+0529", "U+052B", "U+052D", "U+052F", "U+0561", "U+0562", "U+0563",
      "U+0564", "U+0565", "U+0566", "U+0567", "U+0568", "U+0569", "U+056A", "U+056B",
      "U+056C", "U+056D", "U+056E", "U+056F", "U+0570", "U+0571", "U+0572", "U+0573",
      "U+0574", "U+0575", "U+0576", "U+0577", "U+0578", "U+0579", "U+057A", "U+057B",
      "U+057C", "U+057D", "U+057E", "U+057F", "U+0580", "U+0581", "U+0582", "U+0583",
      "U+0584", "U+0585", "U+0586", "U+2D00", "U+2D01", "U+2D02", "U+2D03", "U+2D04",
      "U+2D05", "U+2D06", "U+2D07", "U+2D08", "U+2D09", "U+2D0A", "U+2D0B", "U+2D0C",
      "U+2D0D", "U+2D0E", "U+2D0F", "U+2D10", "U+2D11", "U+2D12", "U+2D13", "U+2D14",
      "U+2D15", "U+2D16", "U+2D17", "U+2D18", "U+2D19", "U+2D1A", "U+2D1B", "U+2D1C",
      "U+2D1D", "U+2D1E", "U+2D1F", "U+2D20", "U+2D21", "U+2D22", "U+2D23", "U+2D24",
      "U+2D25", "U+2D27", "U+2D2D", "U+AB70", "U+AB71", "U+AB72", "U+AB73", "U+AB74",
      "U+AB75", "U+AB76", "U+AB77", "U+AB78", "U+AB79", "U+AB7A", "U+AB7B", "U+AB7C",
      "U+AB7D", "U+AB7E", "U+AB7F", "U+AB80", "U+AB81", "U+AB82", "U+AB83", "U+AB84",
      "U+AB85", "U+AB86", "U+AB87", "U+AB88", "U+AB89", "U+AB8A", "U+AB8B", "U+AB8C",
      "U+AB8D", "U+AB8E", "U+AB8F", "U+AB90", "U+AB91", "U+AB92", "U+AB93", "U+AB94",
      "U+AB95", "U+AB96", "U+AB97", "U+AB98", "U+AB99", "U+AB9A", "U+AB9B", "U+AB9C",
      "U+AB9D", "U+AB9E", "U+AB9F", "U+ABA0", "U+ABA1", "U+ABA2", "U+ABA3", "U+ABA4",
      "U+ABA5", "U+ABA6", "U+ABA7", "U+ABA8", "U+ABA9", "U+ABAA", "U+ABAB", "U+ABAC",
      "U+ABAD", "U+ABAE", "U+ABAF", "U+ABB0", "U+ABB1", "U+ABB2", "U+ABB3", "U+ABB4",
      "U+ABB5", "U+ABB6", "U+ABB7", "U+ABB8", "U+ABB9", "U+ABBA", "U+ABBB", "U+ABBC",
      "U+ABBD", "U+ABBE", "U+ABBF", "U+13F8", "U+13F9", "U+13FA", "U+13FB", "U+13FC",
      "U+13FD", "U+10D0", "U+10D1", "U+10D2", "U+10D3", "U+10D4", "U+10D5", "U+10D6",
      "U+10D7", "U+10D8", "U+10D9", "U+10DA", "U+10DB", "U+10DC", "U+10DD", "U+10DE",
      "U+10DF", "U+10E0", "U+10E1", "U+10E2", "U+10E3", "U+10E4", "U+10E5", "U+10E6",
      "U+10E7", "U+10E8", "U+10E9", "U+10EA", "U+10EB", "U+10EC", "U+10ED", "U+10EE",
      "U+10EF", "U+10F0", "U+10F1", "U+10F2", "U+10F3", "U+10F4", "U+10F5", "U+10F6",
      "U+10F7", "U+10F8", "U+10F9", "U+10FA", "U+10FD", "U+10FE", "U+10FF", "U+1E01",
      "U+1E03", "U+1E05", "U+1E07", "U+1E09", "U+1E0B", "U+1E0D", "U+1E0F", "U+1E11",
      "U+1E13", "U+1E15", "U+1E17", "U+1E19", "U+1E1B", "U+1E1D", "U+1E1F", "U+1E21",
      "U+1E23", "U+1E25", "U+1E27", "U+1E29", "U+1E2B", "U+1E2D", "U+1E2F", "U+1E31",
      "U+1E33", "U+1E35", "U+1E37", "U+1E39", "U+1E3B", "U+1E3D", "U+1E3F", "U+1E41",
      "U+1E43", "U+1E45", "U+1E47", "U+1E49", "U+1E4B", "U+1E4D", "U+1E4F", "U+1E51",
      "U+1E53", "U+1E55", "U+1E57", "U+1E59", "U+1E5B", "U+1E5D", "U+1E5F", "U+1E61",
      "U+1E63", "U+1E65", "U+1E67", "U+1E69", "U+1E6B", "U+1E6D", "U+1E6F", "U+1E71",
      "U+1E73", "U+1E75", "U+1E77", "U+1E79", "U+1E7B", "U+1E7D", "U+1E7F", "U+1E81",
      "U+1E83", "U+1E85", "U+1E87", "U+1E89", "U+1E8B", "U+1E8D", "U+1E8F", "U+1E91",
      "U+1E93", "U+1E95", "U+00DF", "U+1EA1", "U+1EA3", "U+1EA5", "U+1EA7", "U+1EA9",
      "U+1EAB", "U+1EAD", "U+1EAF", "U+1EB1", "U+1EB3", "U+1EB5", "U+1EB7", "U+1EB9",
      "U+1EBB", "U+1EBD", "U+1EBF", "U+1EC1", "U+1EC3", "U+1EC5", "U+1EC7", "U+1EC9",
      "U+1ECB", "U+1ECD", "U+1ECF", "U+1ED1", "U+1ED3", "U+1ED5", "U+1ED7", "U+1ED9",
      "U+1EDB", "U+1EDD", "U+1EDF", "U+1EE1", "U+1EE3", "U+1EE5", "U+1EE7", "U+1EE9",
      "U+1EEB", "U+1EED", "U+1EEF", "U+1EF1", "U+1EF3", "U+1EF5", "U+1EF7", "U+1EF9",
      "U+1EFB", "U+1EFD", "U+1EFF", "U+1F00", "U+1F01", "U+1F02", "U+1F03", "U+1F04",
      "U+1F05", "U+1F06", "U+1F07", "U+1F10", "U+1F11", "U+1F12", "U+1F13", "U+1F14",
      "U+1F15", "U+1F20", "U+1F21", "U+1F22", "U+1F23", "U+1F24", "U+1F25", "U+1F26",
      "U+1F27", "U+1F30", "U+1F31", "U+1F32", "U+1F33", "U+1F34", "U+1F35", "U+1F36",
      "U+1F37", "U+1F40", "U+1F41", "U+1F42", "U+1F43", "U+1F44", "U+1F45", "U+1F51",
      "U+1F53", "U+1F55", "U+1F57", "U+1F60", "U+1F61", "U+1F62", "U+1F63", "U+1F64",
      "U+1F65", "U+1F66", "U+1F67", "U+1F80", "U+1F81", "U+1F82", "U+1F83", "U+1F84",
      "U+1F85", "U+1F86", "U+1F87", "U+1F90", "U+1F91", "U+1F92", "U+1F93", "U+1F94",
      "U+1F95", "U+1F96", "U+1F97", "U+1FA0", "U+1FA1", "U+1FA2", "U+1FA3", "U+1FA4",
      "U+1FA5", "U+1FA6", "U+1FA7", "U+1FB0", "U+1FB1", "U+1F70", "U+1F71", "U+1FB3",
      "U+1F72", "U+1F73", "U+1F74", "U+1F75", "U+1FC3", "U+1FD0", "U+1FD1", "U+1F76",
      "U+1F77", "U+1FE0", "U+1FE1", "U+1F7A", "U+1F7B", "U+1FE5", "U+1F78", "U+1F79",
      "U+1F7C", "U+1F7D", "U+1FF3", "U+03C9", "k", "U+00E5", "U+214E", "U+2170",
      "U+2171", "U+2172", "U+2173", "U+2174", "U+2175", "U+2176", "U+2177", "U+2178",
      "U+2179", "U+217A", "U+217B", "U+217C", "U+217D", "U+217E", "U+217F", "U+2184",
      "U+24D0", "U+24D1", "U+24D2", "U+24D3", "U+24D4", "U+24D5", "U+24D6", "U+24D7",
      "U+24D8", "U+24D9", "U+24DA", "U+24DB", "U+24DC", "U+24DD", "U+24DE", "U+24DF",
      "U+24E0", "U+24E1", "U+24E2", "U+24E3", "U+24E4", "U+24E5", "U+24E6", "U+24E7",
      "U+24E8", "U+24E9", "U+2C30", "U+2C31", "U+2C32", "U+2C33", "U+2C34", "U+2C35",
      "U+2C36", "U+2C37", "U+2C38", "U+2C39", "U+2C3A", "U+2C3B", "U+2C3C", "U+2C3D",
      "U+2C3E", "U+2C3F", "U+2C40", "U+2C41", "U+2C42", "U+2C43", "U+2C44", "U+2C45",
      "U+2C46", "U+2C47", "U+2C48", "U+2C49", "U+2C4A", "U+2C4B", "U+2C4C", "U+2C4D",
      "U+2C4E", "U+2C4F", "U+2C50", "U+2C51", "U+2C52", "U+2C53", "U+2C54", "U+2C55",
      "U+2C56", "U+2C57", "U+2C58", "U+2C59", "U+2C5A", "U+2C5B", "U+2C5C", "U+2C5D",
      "U+2C5E", "U+2C5F", "U+2C61", "U+026B", "U+1D7D", "U+027D", "U+2C68", "U+2C6A",
      "U+2C6C", "U+0251", "U+0271", "U+0250", "U+0252", "U+2C73", "U+2C76", "U+023F",
      "U+0240", "U+2C81", "U+2C83", "U+2C85", "U+2C87", "U+2C89", "U+2C8B", "U+2C8D",
      "U+2C8F", "U+2C91", "U+2C93", "U+2C95", "U+2C97", "U+2C99", "U+2C9B", "U+2C9D",
      "U+2C9F", "U+2CA1", "U+2CA3", "U+2CA5", "U+2CA7", "U+2CA9", "U+2CAB", "U+2CAD",
      "U+2CAF", "U+2CB1", "U+2CB3", "U+2CB5", "U+2CB7", "U+2CB9", "U+2CBB", "U+2CBD",
      "U+2CBF", "U+2CC1", "U+2CC3", "U+2CC5", "U+2CC7", "U+2CC9", "U+2CCB", "U+2CCD",
      "U+2CCF", "U+2CD1", "U+2CD3", "U+2CD5", "U+2CD7", "U+2CD9", "U+2CDB", "U+2CDD",
      "U+2CDF", "U+2CE1", "U+2CE3", "U+2CEC", "U+2CEE", "U+2CF3", "U+A641", "U+A643",
      "U+A645", "U+A647", "U+A649", "U+A64B", "U+A64D", "U+A64F", "U+A651", "U+A653",
      "U+A655", "U+A657", "U+A659", "U+A65B", "U+A65D", "U+A65F", "U+A661", "U+A663",
      "U+A665", "U+A667", "U+A669", "U+A66B", "U+A66D", "U+A681", "U+A683", "U+A685",
      "U+A687", "U+A689", "U+A68B", "U+A68D", "U+A68F", "U+A691", "U+A693", "U+A695",
      "U+A697", "U+A699", "U+A69B", "U+A723", "U+A725", "U+A727", "U+A729", "U+A72B",
      "U+A72D", "U+A72F", "U+A733", "U+A735", "U+A737", "U+A739", "U+A73B", "U+A73D",
      "U+A73F", "U+A741", "U+A743", "U+A745", "U+A747", "U+A749", "U+A74B", "U+A74D",
      "U+A74F", "U+A751", "U+A753", "U+A755", "U+A757", "U+A759", "U+A75B", "U+A75D",
      "U+A75F", "U+A761", "U+A763", "U+A765", "U+A767", "U+A769", "U+A76B", "U+A76D",
      "U+A76F", "U+A77A", "U+A77C", "U+1D79", "U+A77F", "U+A781", "U+A783", "U+A785",
      "U+A787", "U+A78C", "U+0265", "U+A791", "U+A793", "U+A797", "U+A799", "U+A79B",
      "U+A79D", "U+A79F", "U+A7A1", "U+A7A3", "U+A7A5", "U+A7A7", "U+A7A9", "U+0266",
      "U+025C", "U+0261", "U+026C", "U+026A", "U+029E", "U+0287", "U+029D", "U+AB53",
      "U+A7B5", "U+A7B7", "U+A7B9", "U+A7BB", "U+A7BD", "U+A7BF", "U+A7C1", "U+A7C3",
      "U+A794", "U+0282", "U+1D8E", "U+A7C8", "U+A7CA", "U+A7D1", "U+A7D7", "U+A7D9",
      "U+A7F6", "U+FF41", "U+FF42", "U+FF43", "U+FF44", "U+FF45", "U+FF46", "U+FF47",
      "U+FF48", "U+FF49", "U+FF4A", "U+FF4B", "U+FF4C", "U+FF4D", "U+FF4E", "U+FF4F",
      "U+FF50", "U+FF51", "U+FF52", "U+FF53", "U+FF54", "U+FF55", "U+FF56", "U+FF57",
      "U+FF58", "U+FF59", "U+FF5A", "U+10428", "U+10429", "U+1042A", "U+1042B", "U+1042C",
      "U+1042D", "U+1042E", "U+1042F", "U+10430", "U+10431", "U+10432", "U+10433", "U+10434",
      "U+10435", "U+10436", "U+10437", "U+10438", "U+10439", "U+1043A", "U+1043B", "U+1043C",
      "U+1043D", "U+1043E", "U+1043F", "U+10440", "U+10441", "U+10442", "U+10443", "U+10444",
      "U+10445", "U+10446", "U+10447", "U+10448", "U+10449", "U+1044A", "U+1044B", "U+1044C",
      "U+1044D", "U+1044E", "U+1044F", "U+104D8", "U+104D9", "U+104DA", "U+104DB", "U+104DC",
      "U+104DD", "U+104DE", "U+104DF", "U+104E0", "U+104E1", "U+104E2", "U+104E3", "U+104E4",
      "U+104E5", "U+104E6", "U+104E7", "U+104E8", "U+104E9", "U+104EA", "U+104EB", "U+104EC",
      "U+104ED", "U+104EE", "U+104EF", "U+104F0", "U+104F1", "U+104F2", "U+104F3", "U+104F4",
      "U+104F5", "U+104F6", "U+104F7", "U+104F8", "U+104F9", "U+104FA", "U+104FB", "U+10597",
      "U+10598", "U+10599", "U+1059A", "U+1059B", "U+1059C", "U+1059D", "U+1059E", "U+1059F",
      "U+105A0", "U+105A1", "U+105A3", "U+105A4", "U+105A5", "U+105A6", "U+105A7", "U+105A8",
      "U+105A9", "U+105AA", "U+105AB", "U+105AC", "U+105AD", "U+105AE", "U+105AF", "U+105B0",
      "U+105B1", "U+105B3", "U+105B4", "U+105B5", "U+105B6", "U+105B7", "U+105B8", "U+105B9",
      "U+105BB", "U+105BC", "U+10CC0", "U+10CC1", "U+10CC2", "U+10CC3", "U+10CC4", "U+10CC5",
      "U+10CC6", "U+10CC7", "U+10CC8", "U+10CC9", "U+10CCA", "U+10CCB", "U+10CCC", "U+10CCD",
      "U+10CCE", "U+10CCF", "U+10CD0", "U+10CD1", "U+10CD2", "U+10CD3", "U+10CD4", "U+10CD5",
      "U+10CD6", "U+10CD7", "U+10CD8", "U+10CD9", "U+10CDA", "U+10CDB", "U+10CDC", "U+10CDD",
      "U+10CDE", "U+10CDF", "U+10CE0", "U+10CE1", "U+10CE2", "U+10CE3", "U+10CE4", "U+10CE5",
      "U+10CE6", "U+10CE7", "U+10CE8", "U+10CE9", "U+10CEA", "U+10CEB", "U+10CEC", "U+10CED",
      "U+10CEE", "U+10CEF", "U+10CF0", "U+10CF1", "U+10CF2", "U+118C0", "U+118C1", "U+118C2",
      "U+118C3", "U+118C4", "U+118C5", "U+118C6", "U+118C7", "U+118C8", "U+118C9", "U+118CA",
      "U+118CB", "U+118CC", "U+118CD", "U+118CE", "U+118CF", "U+118D0", "U+118D1", "U+118D2",
      "U+118D3", "U+118D4", "U+118D5", "U+118D6", "U+118D7", "U+118D8", "U+118D9", "U+118DA",
      "U+118DB", "U+118DC", "U+118DD", "U+118DE", "U+118DF", "U+16E60", "U+16E61", "U+16E62",
      "U+16E63", "U+16E64", "U+16E65", "U+16E66", "U+16E67", "U+16E68", "U+16E69", "U+16E6A",
      "U+16E6B", "U+16E6C", "U+16E6D", "U+16E6E", "U+16E6F", "U+16E70", "U+16E71", "U+16E72",
      "U+16E73", "U+16E74", "U+16E75", "U+16E76", "U+16E77", "U+16E78", "U+16E79", "U+16E7A",
      "U+16E7B", "U+16E7C", "U+16E7D", "U+16E7E", "U+16E7F", "U+1E922", "U+1E923", "U+1E924",
      "U+1E925", "U+1E926", "U+1E927", "U+1E928", "U+1E929", "U+1E92A", "U+1E92B", "U+1E92C",
      "U+1E92D", "U+1E92E", "U+1E92F", "U+1E930", "U+1E931", "U+1E932", "U+1E933", "U+1E934",
      "U+1E935", "U+1E936", "U+1E937", "U+1E938", "U+1E939", "U+1E93A", "U+1E93B", "U+1E93C",
      "U+1E93D", "U+1E93E", "U+1E93F", "U+1E940", "U+1E941", "U+1E942", "U+1E943">>

\* the characters beyond A-Z that have a lower case
UpperOthers == {UpperOther[i] : i \in 1..Len(UpperOther)}

\* unicode.ToLower
ToLowerChar(c) ==
    IF \E i \in 1..26 : Upper[i] = c
    THEN Lower[CHOOSE i \in 1..26 : Upper[i] = c]
    ELSE IF c \in UpperOthers
    THEN LowerOther[CHOOSE i \in 1..Len(UpperOther) : UpperOther[i] = c]
    ELSE c

\* strings.ToLower

ToLower(s) == [i \in 1..Len(s) |-> ToLowerChar(s[i])]

\* strings.Index(s, c) of a one-character c: -1 when s has no c
Index(s, c) ==
    IF \E i \in 1..Len(s) : s[i] = c
    THEN SetMin({i \in 1..Len(s) : s[i] = c}) - 1
    ELSE 0 - 1

\* strings.HasPrefix
HasPrefix(s, p) == Len(s) >= Len(p) /\ SubSeq(s, 1, Len(p)) = p

\* s[a:b] panics unless 0 <= a <= b <= len(s)
SliceInRange(s, a, b) == 0 <= a /\ a <= b /\ b <= Len(s)

\* s[a:b]
Slice(s, a, b) == SubSeq(s, a + 1, b)

\* white space: the characters unicode.IsSpace holds of
Spaces ==
    {" ", "\t", "\n", "\r", "\f", VT, NEL, NBSP,
     "U+1680", "U+2000", "U+2001", "U+2002", "U+2003", "U+2004", "U+2005",
     "U+2006", "U+2007", "U+2008", "U+2009", "U+200A", "U+2028", "U+2029",
     "U+202F", "U+205F", "U+3000"}

\* strings.TrimSpace
TrimSpace(s) ==
    LET keep == {i \in 1..Len(s) : s[i] \notin Spaces}
    IN  IF keep = {} THEN <<>> ELSE SubSeq(s, SetMin(keep), SetMax(keep))

\* the k-th smallest element of S
Nth(S, k) == CHOOSE x \in S : Cardinality({y \in S : y < x}) = k - 1

\* the pieces of s between the characters of seps, empty pieces kept
SplitOn(s, seps) ==
    LET cuts == {i \in 1..Len(s) : s[i] \in seps}
        n    == Cardinality(cuts)
        b(k) == IF k = 0 THEN 0 ELSE IF k = n + 1 THEN Len(s) + 1 ELSE Nth(cuts, k)
    IN  [k \in 1..(n + 1) |-> SubSeq(s, b(k - 1) + 1, b(k) - 1)]

\* strings.Split(s, sep) of a one-character sep
Split(s, sep) == SplitOn(s, {sep})

NonEmpty(x) == Len(x) > 0

\* strings.Fields
Fields(s) == SelectSeq(SplitOn(s, Spaces), NonEmpty)

\* strings.FieldsFunc(s, func(r rune) bool { return r == c })
FieldsFunc(s, c) == SelectSeq(SplitOn(s, {c}), NonEmpty)

\* a result and an error, as the pair (value, err)
Ok(v) == [err |-> "nil", val |-> v]

Err(m) == [err |-> m, val |-> 0]

\* a digit string without its leading zeros
StripZeros(s) ==
    IF \E i \in 1..Len(s) : s[i] # "0"
    THEN SubSeq(s, SetMin({i \in 1..Len(s) : s[i] # "0"}), Len(s))
    ELSE <<>>

\* the number written a is at most the number written b, for digit strings
\* without leading zeros: the numbers themselves may be beyond every integer
\* at hand
DigitsLeq(a, b) ==
    \/ Len(a) < Len(b)
    \/ /\ Len(a) = Len(b)
       /\ \/ a = b
          \/ \E i \in 1..Len(a) :
                /\ SubSeq(a, 1, i - 1) = SubSeq(b, 1, i - 1)
                /\ DigitVal(a[i]) < DigitVal(b[i])

\* 1<<63 - 1 and 1<<63, the largest int and the magnitude of the smallest
\* (an int of 64 bits)
MaxIntDigits == <<"9", "2", "2", "3", "3", "7", "2", "0", "3", "6", "8", "5", "4", "7", "7", "5", "8", "0", "7">>

MinIntDigits == <<"9", "2", "2", "3", "3", "7", "2", "0", "3", "6", "8", "5", "4", "7", "7", "5", "8", "0", "8">>

\* strconv.Atoi succeeds: an optional sign and one or more digits, and the
\* number fits an int ("value out of range" otherwise)
AtoiOK(s) ==
    LET body == IF Len(s) > 0 /\ s[1] \in {"+", "-"} THEN Tail(s) ELSE s
    IN  /\ Len(body) > 0
        /\ \A i \in 1..Len(body) : IsDigit(body[i])
        /\ DigitsLeq(StripZeros(body), IF s[1] = "-" THEN MinIntDigits ELSE MaxIntDigits)

RECURSIVE DigitsVal(_)
DigitsVal(s) ==
    IF Len(s) = 0 THEN 0
    ELSE 10 * DigitsVal(SubSeq(s, 1, Len(s) - 1)) + DigitVal(s[Len(s)])

\* the number strconv.Atoi returns
Atoi(s) ==
    IF s[1] = "-" THEN 0 - DigitsVal(Tail(s))
    ELSE IF s[1] = "+" THEN DigitsVal(Tail(s))
    ELSE DigitsVal(s)

\* mustParseInt
mustParseInt(expr) ==
    IF ~AtoiOK(expr) THEN Err("failed to parse int")
    ELSE IF Atoi(expr) < 0 THEN Err("negative number not allowed")
    ELSE Ok(Atoi(expr))

MonthNames ==
    <<<<"j", "a", "n">>,
      <<"f", "e", "b">>,
      <<"m", "a", "r">>,
      <<"a", "p", "r">>,
      <<"m", "a", "y">>,
      <<"j", "u", "n">>,
      <<"j", "u", "l">>,
      <<"a", "u", "g">>,
      <<"s", "e", "p">>,
      <<"o", "c", "t">>,
      <<"n", "o", "v">>,
      <<"d", "e", "c">>>>

DowNames ==
    <<<<"s", "u", "n">>,
      <<"m", "o", "n">>,
      <<"t", "u", "e">>,
      <<"w", "e", "d">>,
      <<"t", "h", "u">>,
      <<"f", "r", "i">>,
      <<"s", "a", "t">>>>

\* the bounds of each field
seconds == [min |-> 0, max |-> 59, names |-> {}]

minutes == [min |-> 0, max |-> 59, names |-> {}]

hours == [min |-> 0, max |-> 23, names |-> {}]

dom == [min |-> 1, max |-> 31, names |-> {}]

months == [min |-> 1, max |-> 12, names |-> {<<MonthNames[i], i>> : i \in 1..12}]

dow == [min |-> 0, max |-> 6, names |-> {<<DowNames[i], i - 1>> : i \in 1..7}]

\* parseIntOrName
parseIntOrName(expr, names) ==
    IF \E p \in names : p[1] = ToLower(expr)
    THEN Ok((CHOOSE p \in names : p[1] = ToLower(expr))[2])
    ELSE mustParseInt(expr)

\* getBits: the bits min, min + step, ... up to max
getBits(min, max, step) == {i \in min..max : (i - min) % step = 0}

\* all
all(r) == getBits(r.min, r.max, 1) \cup {starBit}

\* getRange, the end: the range is checked against the bounds of the field
getRangeCheck(start, end, step, extra, r) ==
    IF start < r.min THEN Err("beginning of range below minimum")
    ELSE IF end > r.max THEN Err("end of range above maximum")
    ELSE IF start > end THEN Err("beginning of range beyond end of range")
    ELSE IF step = 0 THEN Err("step of range should be a positive number")
    ELSE Ok(getBits(start, end, step) \cup extra)

\* getRange, "switch len(rangeAndStep)": st is the step parsed from the
\* text after the slash, nStep the number of pieces around slashes
getRangeStep(star, singleDigit, start, end, nStep, st, r) ==
    IF nStep = 2 /\ st.err # "nil" THEN st
    ELSE IF nStep > 2 THEN Err("too many slashes")
    ELSE getRangeCheck(start,
                       IF nStep = 2 /\ singleDigit THEN r.max ELSE end,
                       IF nStep = 1 THEN 1 ELSE st.val,
                       IF star /\ ~(nStep = 2 /\ st.val > 1) THEN {starBit} ELSE {},
                       r)

\* getRange, the start and the end: lo and hi are the numbers parsed around
\* the hyphen, nLow the number of pieces around hyphens
getRangeLow(star, nLow, lo, hi, nStep, st, r) ==
    IF ~star /\ lo.err # "nil" THEN lo
    ELSE IF ~star /\ nLow = 2 /\ hi.err # "nil" THEN hi
    ELSE IF ~star /\ nLow > 2 THEN Err("too many hyphens")
    ELSE getRangeStep(star, nLow = 1,
                      IF star THEN r.min ELSE lo.val,
                      IF star THEN r.max ELSE IF nLow = 1 THEN lo.val ELSE hi.val,
                      nStep, st, r)

\* getRange, after the two strings.Split
getRangeSplit(rangeAndStep, lowAndHigh, r) ==
    getRangeLow(lowAndHigh[1] \in {<<"*">>, <<"?">>},
                Len(lowAndHigh),
                parseIntOrName(lowAndHigh[1], r.names),
                IF Len(lowAndHigh) >= 2 THEN parseIntOrName(lowAndHigh[2], r.names)
                ELSE Err("no end"),
                Len(rangeAndStep),
                IF Len(rangeAndStep) >= 2 THEN mustParseInt(rangeAndStep[2])
                ELSE Err("no step"),
                r)

getRangeParts(rangeAndStep, r) ==
    getRangeSplit(rangeAndStep, Split(rangeAndStep[1], "-"), r)

\* getRange: number | number "-" number [ "/" number ]
getRange(expr, r) == getRangeParts(Split(expr, "/"), r)

\* the union of the bits of the ranges, or the first error
FirstError(res) ==
    LET bad == {i \in 1..Len(res) : res[i].err # "nil"}
    IN  IF bad # {} THEN Err(res[SetMin(bad)].err)
        ELSE Ok([i \in 1..Len(res) |-> res[i].val])

getFieldBits(res) ==
    IF res.err # "nil" THEN res
    ELSE Ok(UNION {res.val[i] : i \in 1..Len(res.val)})

getFieldRanges(ranges, r) ==
    getFieldBits(FirstError([i \in 1..Len(ranges) |-> getRange(ranges[i], r)]))

\* getField: the ranges between commas
getField(field, r) == getFieldRanges(FieldsFunc(field, ","), r)

\* the options of a Parser
places == <<"Second", "Minute", "Hour", "Dom", "Month", "Dow">>

defaults == <<<<"0">>, <<"0">>, <<"0">>, <<"*">>, <<"*">>, <<"*">>>>

\* the Parsers an engine is given: the standard one, WithSeconds, one with
\* an optional day of week, one with optional seconds, one without
\* descriptors
standardParser == {"Minute", "Hour", "Dom", "Month", "Dow", "Descriptor"}

Parsers ==
    {standardParser,
     {"Second", "Minute", "Hour", "Dom", "Month", "Dow", "Descriptor"},
     {"Minute", "Hour", "Dom", "Month", "DowOptional", "Descriptor"},
     {"SecondOptional", "Minute", "Hour", "Dom", "Month", "Dow", "Descriptor"},
     {"Dom", "Month", "Dow"}}

\* normalizeFields: the six fields, defaults filled in, or an error
normalizeFields(fields, options) ==
    LET optionals == (IF "SecondOptional" \in options THEN 1 ELSE 0)
                     + (IF "DowOptional" \in options THEN 1 ELSE 0)
        opts   == options
                  \cup (IF "SecondOptional" \in options THEN {"Second"} ELSE {})
                  \cup (IF "DowOptional" \in options THEN {"Dow"} ELSE {})
        max    == Cardinality({i \in 1..6 : places[i] \in opts})
        min    == max - optionals
        count  == Len(fields)
        filled == IF min < max /\ count = min
                  THEN IF "DowOptional" \in opts
                       THEN Append(fields, defaults[6])
                       ELSE <<defaults[1]>> \o fields
                  ELSE fields
        n(i)   == Cardinality({j \in 1..i : places[j] \in opts})
    IN  IF optionals > 1 THEN Err("multiple optionals may not be configured")
        ELSE IF count < min \/ count > max THEN Err("expected fields")
        ELSE Ok([i \in 1..6 |-> IF places[i] \in opts THEN filled[n(i)] ELSE defaults[i]])

\* the bounds of the six fields, in the order of places
FieldBounds == <<seconds, minutes, hours, dom, months, dow>>

\* "return &SpecSchedule{...}, nil", or the first error of the six fields
ParseFieldsBuild(res) ==
    IF res.err # "nil" THEN res
    ELSE Ok(SpecSchedule(res.val[1], res.val[2], res.val[3],
                         res.val[4], res.val[5], res.val[6]))

\* the six calls of field(): getField on each, the first error kept
ParseFieldsNorm(norm) ==
    IF norm.err # "nil" THEN norm
    ELSE ParseFieldsBuild(FirstError([i \in 1..6 |-> getField(norm.val[i], FieldBounds[i])]))

\* the rest of Parse: strings.Fields, normalizeFields, the fields
ParseFields(s, options) == ParseFieldsNorm(normalizeFields(Fields(s), options))

\* time.ParseDuration
\* unitMap: the nanoseconds of each unit
Units ==
    <<[name |-> <<"n", "s">>, ns |-> <<1>>],
      [name |-> <<"u", "s">>, ns |-> <<1, 0>>],
      [name |-> <<Micro, "s">>, ns |-> <<1, 0>>],
      [name |-> <<Mu, "s">>, ns |-> <<1, 0>>],
      [name |-> <<"m", "s">>, ns |-> <<1, 0, 0>>],
      [name |-> <<"s">>, ns |-> <<1, 0, 0, 0>>],
      [name |-> <<"m">>, ns |-> <<60, 0, 0, 0>>],
      [name |-> <<"h">>, ns |-> <<3, 600, 0, 0, 0>>]>>

IsUnit(u) == \E k \in 1..Len(Units) : Units[k].name = u

UnitOf(u) == Units[CHOOSE k \in 1..Len(Units) : Units[k].name = u].ns

\* leadingInt: the digits in front
DigitPrefixLen(s) ==
    IF \E i \in 1..Len(s) : ~IsDigit(s[i])
    THEN SetMin({i \in 1..Len(s) : ~IsDigit(s[i])}) - 1
    ELSE Len(s)

\* "Consume unit": the characters up to the next period or digit
UnitPrefixLen(s) ==
    IF \E i \in 1..Len(s) : s[i] = "." \/ IsDigit(s[i])
    THEN SetMin({i \in 1..Len(s) : s[i] = "." \/ IsDigit(s[i])}) - 1
    ELSE Len(s)

\* the decimal digit at index i of a string, zero in front of the string
DecimalAt(s, i) == IF i >= 1 THEN DigitVal(s[i]) ELSE 0

\* the number a string of decimal digits writes: three of them to a thousand
NumOf(s) ==
    Norm([i \in 1..((Len(s) + 2) \div 3) |->
            100 * DecimalAt(s, Len(s) - 3 * ((Len(s) + 2) \div 3 - i) - 2)
            + 10 * DecimalAt(s, Len(s) - 3 * ((Len(s) + 2) \div 3 - i) - 1)
            + DecimalAt(s, Len(s) - 3 * ((Len(s) + 2) \div 3 - i))])

\* leadingFraction: the digits are taken up while the number they write is
\* at most 1<<63 and the later ones are passed over; k counts those taken
FractionLen(s) ==
    SetMax({k \in 0..Len(s) : ~NumLess(Two63, NumOf(SubSeq(s, 1, k)))})

\* leadingFraction: "scale *= 10" for each of the k digits taken up, a float64
\* product every time: exact up to 1e22, 5^22 being below 1<<53, and rounded
\* from there on
RECURSIVE ScaleOf(_)
ScaleOf(k) ==
    IF k <= 22 THEN Shift(<<10 ^ (k % 3)>>, k \div 3)
    ELSE Pick({Uint64(Float64(NumTimes(s, 10))) : s \in {ScaleOf(k - 1)}})

\* the scales of 1 to 31 digits
Scales == SubSeq([k \in 1..31 |-> ScaleOf(k)], 1, 31)

Scale(k) == IF k = 0 THEN <<1>> ELSE Scales[k]

\* "uint64(float64(f) * (float64(unit) / scale))", scale the product of k
\* tens. From 1e32 on the product is below one, f being at most 1<<63 and
\* the unit at most an hour, and the uint64 of it is zero
Fraction(f, k, unit) ==
    IF k > 31 THEN <<>>
    ELSE Pick({Uint64(FloatMul(Float64(f), FloatDiv(unit, s))) : s \in {Scale(k)}})

\* "if f > 0 { v += uint64(...); if v > 1<<63 }" of a v that is multiplied
\* by the unit already
DurationPlus(v, f, k, unit, rest) ==
    IF Len(f) = 0 THEN Ok([v |-> v, rest |-> rest])
    ELSE Pick({IF NumLess(Two63, t) THEN Err("invalid duration")
               ELSE Ok([v |-> t, rest |-> rest]) :
                 t \in {NumAdd(v, Fraction(f, k, unit))}})

\* the nanoseconds of one term: the unit is looked up, "v > 1<<63/unit",
\* "v *= unit"
DurationTerm(v, f, k, unit, rest) ==
    IF ~IsUnit(unit) THEN Err("unknown unit in duration")
    ELSE Pick({IF NumLess(Two63, t) THEN Err("invalid duration")
               ELSE DurationPlus(t, f, k, UnitOf(unit), rest) :
                 t \in {NumMul(v, UnitOf(unit))}})

\* "if !pre && !post": no digit at all; then the unit, which may not be empty
DurationUnit(int, frac, rest) ==
    IF Len(int) = 0 /\ Len(frac) = 0 THEN Err("invalid duration")
    ELSE IF UnitPrefixLen(rest) = 0 THEN Err("missing unit in duration")
    ELSE DurationTerm(NumOf(int), NumOf(SubSeq(frac, 1, FractionLen(frac))),
                      FractionLen(frac), SubSeq(rest, 1, UnitPrefixLen(rest)),
                      SubSeq(rest, UnitPrefixLen(rest) + 1, Len(rest)))

\* "Consume (\.[0-9]*)?"
DurationFrac(int, rest) ==
    IF Len(rest) > 0 /\ rest[1] = "."
    THEN DurationUnit(int, SubSeq(rest, 2, 1 + DigitPrefixLen(Tail(rest))),
                      SubSeq(rest, 2 + DigitPrefixLen(Tail(rest)), Len(rest)))
    ELSE DurationUnit(int, <<>>, rest)

\* "Consume [0-9]*": leadingInt fails on a number above 1<<63
DurationInt(s, n) ==
    IF NumLess(Two63, NumOf(SubSeq(s, 1, n))) THEN Err("invalid duration")
    ELSE DurationFrac(SubSeq(s, 1, n), SubSeq(s, n + 1, Len(s)))

\* the loop "for s != \"\"": one term after the other, d the sum so far, a
\* uint64: "d += v", "if d > 1<<63"
RECURSIVE DurationTerms(_, _)
DurationTerms(s, d) ==
    IF Len(s) = 0 THEN Ok(d)
    ELSE IF ~(s[1] = "." \/ IsDigit(s[1])) THEN Err("invalid duration")
    ELSE Pick({IF t.err # "nil" THEN t
               ELSE IF NumLess(Two63, Uint64Add(d, t.val.v)) THEN Err("invalid duration")
               ELSE DurationTerms(t.val.rest, Uint64Add(d, t.val.v)) :
                 t \in {DurationInt(s, DigitPrefixLen(s))}})

\* "if neg { return -Duration(d), nil }", "if d > 1<<63-1"
DurationResult(neg, res) ==
    IF res.err # "nil" THEN res
    ELSE IF neg THEN Ok(Dur(TRUE, res.val))
    ELSE IF ~NumLess(res.val, Two63) THEN Err("invalid duration")
    ELSE Ok(Dur(FALSE, res.val))

ParseDuration(s) ==
    LET neg  == Len(s) > 0 /\ s[1] = "-"
        body == IF Len(s) > 0 /\ s[1] \in {"+", "-"} THEN Tail(s) ELSE s
    IN  IF body = <<"0">> THEN Ok(Dur(FALSE, <<>>))
        ELSE IF Len(body) = 0 THEN Err("invalid duration")
        ELSE DurationResult(neg, DurationTerms(body, <<>>))

\* the named schedules of parseDescriptor
Descriptors ==
    {<<<<"@", "y", "e", "a", "r", "l", "y">>, SpecSchedule({seconds.min}, {minutes.min}, {hours.min}, {dom.min}, {months.min}, all(dow))>>,
     <<<<"@", "a", "n", "n", "u", "a", "l", "l", "y">>, SpecSchedule({seconds.min}, {minutes.min}, {hours.min}, {dom.min}, {months.min}, all(dow))>>,
     <<<<"@", "m", "o", "n", "t", "h", "l", "y">>, SpecSchedule({seconds.min}, {minutes.min}, {hours.min}, {dom.min}, all(months), all(dow))>>,
     <<<<"@", "w", "e", "e", "k", "l", "y">>, SpecSchedule({seconds.min}, {minutes.min}, {hours.min}, all(dom), all(months), {dow.min})>>,
     <<<<"@", "d", "a", "i", "l", "y">>, SpecSchedule({seconds.min}, {minutes.min}, {hours.min}, all(dom), all(months), all(dow))>>,
     <<<<"@", "m", "i", "d", "n", "i", "g", "h", "t">>, SpecSchedule({seconds.min}, {minutes.min}, {hours.min}, all(dom), all(months), all(dow))>>,
     <<<<"@", "h", "o", "u", "r", "l", "y">>, SpecSchedule({seconds.min}, {minutes.min}, all(hours), all(dom), all(months), all(dow))>>}

every == <<"@", "e", "v", "e", "r", "y", " ">>

\* parseDescriptor
parseDescriptor(descriptor) ==
    IF \E p \in Descriptors : p[1] = descriptor
    THEN Ok((CHOOSE p \in Descriptors : p[1] = descriptor)[2])
    ELSE IF HasPrefix(descriptor, every)
    THEN LET duration == ParseDuration(Slice(descriptor, Len(every), Len(descriptor)))
         IN  IF duration.err # "nil" THEN Err("failed to parse duration")
             ELSE Ok(Every(duration.val))
    ELSE Err("unrecognized descriptor")

\* time.LoadLocation: the names it knows by itself
FixedLocations == {<<>>, <<"U", "T", "C">>, Local}

\* containsDotDot
containsDotDot(name) ==
    \E i \in 1..(Len(name) - 1) : name[i] = "." /\ name[i + 1] = "."

\* time.LoadLocation(name): the errors it may return. "", "UTC" and "Local"
\* are always found; a name with ".." in it or with a slash or a backslash in
\* front is no name of a time zone; every other name is looked up in the zone
\* database at hand ($ZONEINFO, the system's zoneinfo directories, the zip of
\* $GOROOT, or the package time/tzdata linked in) and is found there or is
\* unknown
LoadLocation(name) ==
    IF name \in FixedLocations THEN {"nil"}
    ELSE IF containsDotDot(name) \/ name[1] \in {"/", "\\"}
    THEN {"invalid location name"}
    ELSE {"nil", "unknown time zone"}

TZ == <<"T", "Z", "=">>

CRONTZ == <<"C", "R", "O", "N", "_", "T", "Z", "=">>

\* the specs given to AddJob
Inputs ==
    {<<>>,
     <<"*", " ", "*", " ", "*", " ", "*", " ", "*">>,
     <<"0", " ", "0", " ", "1", " ", "1", " ", "*">>,
     <<"*", "/", "1", "5", " ", "0", " ", "1", ",", "1", "5", " ", "*", " ", "1", "-", "5">>,
     <<"0", " ", "0", " ", "1", " ", "j", "a", "n", " ", "s", "u", "n">>,
     <<"0", " ", "0", " ", "1", " ", "J", "A", "N", "-", "m", "a", "r", " ", "*">>,
     <<"T", "Z", "=", "U", "T", "C", " ", "*", " ", "*", " ", "*", " ", "*", " ", "*">>,
     <<"C", "R", "O", "N", "_", "T", "Z", "=", "U", "T", "C", " ", "0", " ", "0", " ", "*", " ", "*", " ", "*">>,
     <<"T", "Z", "=", "U", "T", "C">>,
     <<"C", "R", "O", "N", "_", "T", "Z", "=", "U", "T", "C">>,
     <<"T", "Z", "=", "M", "a", "r", "s", " ", "*", " ", "*", " ", "*", " ", "*", " ", "*">>,
     <<"T", "Z", "=", "U", "T", "C", " ">>,
     <<"T", "Z", "=", "U", "T", "C", " ", "@", "d", "a", "i", "l", "y">>,
     <<"*", " ", "*", " ", "*", " ", "*">>,
     <<"*", " ", "*", " ", "*", " ", "*", " ", "*", " ", "*", " ", "*">>,
     <<"6", "0", " ", "*", " ", "*", " ", "*", " ", "*">>,
     <<"*", " ", "2", "4", " ", "*", " ", "*", " ", "*">>,
     <<"*", " ", "*", " ", "0", " ", "*", " ", "*">>,
     <<"*", " ", "*", " ", "*", " ", "1", "3", " ", "*">>,
     <<"*", " ", "*", " ", "*", " ", "*", " ", "7">>,
     <<"*", "/", "0", " ", "*", " ", "*", " ", "*", " ", "*">>,
     <<"5", "-", "1", " ", "*", " ", "*", " ", "*", " ", "*">>,
     <<"1", "-", "2", "-", "3", " ", "*", " ", "*", " ", "*", " ", "*">>,
     <<"1", "/", "2", "/", "3", " ", "*", " ", "*", " ", "*", " ", "*">>,
     <<"-", "1", " ", "*", " ", "*", " ", "*", " ", "*">>,
     <<"x", " ", "*", " ", "*", " ", "*", " ", "*">>,
     <<"1", "/", "x", " ", "*", " ", "*", " ", "*", " ", "*">>,
     <<"3", "/", "2", "0", " ", "*", " ", "*", " ", "*", " ", "*">>,
     <<",", " ", "*", " ", "*", " ", "*", " ", "*">>,
     <<"?", " ", "*", " ", "*", " ", "*", " ", "*">>,
     <<"@", "e", "v", "e", "r", "y", " ", "1", "s">>,
     <<"@", "e", "v", "e", "r", "y", " ", "9", "0", "s">>,
     <<"@", "e", "v", "e", "r", "y", " ", "1", "h", "3", "0", "m">>,
     <<"@", "e", "v", "e", "r", "y", " ", "0">>,
     <<"@", "e", "v", "e", "r", "y", " ", "-", "5", "s">>,
     <<"@", "e", "v", "e", "r", "y", " ", "x">>,
     <<"@", "e", "v", "e", "r", "y", " ", "5">>,
     <<"@", "e", "v", "e", "r", "y", " ">>,
     <<"@", "e", "v", "e", "r", "y">>,
     <<"@", "h", "o", "u", "r", "l", "y">>,
     <<"@", "d", "a", "i", "l", "y">>,
     <<"@", "m", "i", "d", "n", "i", "g", "h", "t">>,
     <<"@", "w", "e", "e", "k", "l", "y">>,
     <<"@", "m", "o", "n", "t", "h", "l", "y">>,
     <<"@", "y", "e", "a", "r", "l", "y">>,
     <<"@", "a", "n", "n", "u", "a", "l", "l", "y">>,
     <<"@", "n", "e", "v", "e", "r">>,
     <<"0", " ", "0", " ", "0", " ", "2", "9", " ", "2", " ", "*">>,
     <<"*", " ", "*", " ", "*", " ", "*", " ", "*", " ", "*">>,
     <<" ", " ", "0", " ", " ", " ", "0", " ", "1", " ", "1", " ", "*", " ", " ">>,
     <<"*", " ", "*", " ", "*", " ", "*", " ", "*", "\n">>,
     <<"T", "Z", "=", "U", "T", "C", " ", "\n", "@", "d", "a", "i", "l", "y">>,
     <<"T", "Z", "=", "U", "T", "C", " ", "*", " ", "*", " ", "*", " ", "*", " ", "*", "\n">>,
     <<"*", " ", "*", "\t", "*", " ", "*", "\r", "\n", "*">>,
     <<"*", " ", "*", " ", "*", " ", "*", " ", "F", "R", IDot>>,
     <<"*", " ", "*", " ", "*", " ", "*", " ", "m", "o", "n", "-", "F", "R", IDot>>,
     <<"9", "9", "9", "9", "9", "9", "9", "9", "9", "9", "9", "9", "9", "9", "9", "9", "9", "9", "9", "9", " ", "*", " ", "*", " ", "*", " ", "*">>,
     <<"*", "/", "9", "9", "9", "9", "9", "9", "9", "9", "9", "9", "9", "9", "9", "9", "9", "9", "9", "9", "9", "9", " ", "*", " ", "*", " ", "*", " ", "*">>,
     <<"-", "9", "9", "9", "9", "9", "9", "9", "9", "9", "9", "9", "9", "9", "9", "9", "9", "9", "9", "9", "9", " ", "*", " ", "*", " ", "*", " ", "*">>,
     <<"@", "e", "v", "e", "r", "y", " ", "5", "0", "0", "m", "s">>,
     <<"@", "e", "v", "e", "r", "y", " ", "1", ".", "5", "s">>,
     <<"@", "e", "v", "e", "r", "y", " ", ".", "5", "s">>,
     <<"@", "e", "v", "e", "r", "y", " ", "1", ".", "s">>,
     <<"@", "e", "v", "e", "r", "y", " ", "1", ".", "5">>,
     <<"@", "e", "v", "e", "r", "y", " ", "1", "x">>,
     <<"@", "e", "v", "e", "r", "y", " ", ".", "s">>,
     <<"@", "e", "v", "e", "r", "y", " ", "2", "0", "0", "m", "s", "3", "0", "0", "m", "s">>,
     <<"@", "e", "v", "e", "r", "y", " ", "1", "5", "0", "0", Micro, "s">>,
     <<"@", "e", "v", "e", "r", "y", " ", "1", ".", "5", "m">>,
     <<"T", "Z", "=", "A", "s", "i", "a", "/", "T", "o", "k", "y", "o", " ", "*", " ", "*", " ", "*", " ", "*", " ", "*">>,
     <<"C", "R", "O", "N", "_", "T", "Z", "=", "A", "m", "e", "r", "i", "c", "a", "/", "N", "e", "w", "_", "Y", "o", "r", "k", " ", "0", " ", "0", " ", "*", " ", "*", " ", "*">>,
     <<"T", "Z", "=", "E", "u", "r", "o", "p", "e", "/", "B", "e", "r", "l", "i", "n", " ", "@", "d", "a", "i", "l", "y">>,
     <<"@", "e", "v", "e", "r", "y", " ", "1", ".", "9", "9", "9", "9", "9", "9", "9", "9", "9", "9", "9", "9", "9", "9", "9", "9", "s">>,
     <<"@", "e", "v", "e", "r", "y", " ", "0", ".", "3", "3", "3", "3", "3", "3", "3", "3", "3", "3", "3", "3", "3", "3", "3", "3", "3", "3", "3", "h">>,
     <<"@", "e", "v", "e", "r", "y", " ", "2", "5", "6", "2", "0", "4", "7", "h">>,
     <<"@", "e", "v", "e", "r", "y", " ", "2", "5", "6", "2", "0", "4", "7", "h", "2", "5", "6", "2", "0", "4", "7", "h">>,
     <<"@", "e", "v", "e", "r", "y", " ", "2", "5", "6", "2", "0", "4", "7", ".", "9", "h">>,
     <<"@", "e", "v", "e", "r", "y", " ", "9", "2", "2", "3", "3", "7", "2", "0", "3", "6", "8", "5", "4", "7", "7", "5", "8", "0", "8", "n", "s">>,
     <<"@", "e", "v", "e", "r", "y", " ", "-", "9", "2", "2", "3", "3", "7", "2", "0", "3", "6", "8", "5", "4", "7", "7", "5", "8", "0", "8", "n", "s">>,
     <<"@", "e", "v", "e", "r", "y", " ", "2", "5", "6", "2", "0", "4", "7", "h", "4", "7", "m", "1", "6", ".", "8", "5", "4", "7", "7", "5", "8", "0", "8", "s">>,
     <<"T", "Z", "=", "A", "s", "i", "a", "/", "S", "e", "o", "u", "l", " ", "*", " ", "*", " ", "*", " ", "*", " ", "*">>,
     <<"C", "R", "O", "N", "_", "T", "Z", "=", "E", "u", "r", "o", "p", "e", "/", "M", "a", "d", "r", "i", "d", " ", "0", " ", "0", " ", "*", " ", "*", " ", "*">>,
     <<"T", "Z", "=", "U", "S", "/", "P", "a", "c", "i", "f", "i", "c", " ", "@", "h", "o", "u", "r", "l", "y">>,
     <<"T", "Z", "=", ".", ".", "/", "U", "T", "C", " ", "*", " ", "*", " ", "*", " ", "*", " ", "*">>,
     <<"T", "Z", "=", "/", "U", "T", "C", " ", "*", " ", "*", " ", "*", " ", "*", " ", "*">>,
     <<"*", " ", "*", " ", "*", " ", "*", " ", "U+FF2D", "o", "n">>}

\* AddJob(spec, cmd) is called and calls c.parser.Parse(spec)
AddJobCall(s) ==
    /\ ppc \in {"ready", "returned"}
    /\ input' = s
    /\ spec' = s
    /\ loc' = Local
    /\ perr' = "nil"
    /\ psched' = NoSchedule
    /\ addID' = 0
    /\ ppc' = "Parse"
    /\ UNCHANGED parser
    /\ UNCHANGED <<engineVars, chainVars, schedVars>>

\* Parse: "if len(spec) == 0"
ParseEmpty ==
    /\ ppc = "Parse"
    /\ Len(spec) = 0
    /\ perr' = "empty spec string"
    /\ ppc' = "return"
    /\ UNCHANGED <<parser, input, spec, loc, psched, addID>>
    /\ UNCHANGED <<engineVars, chainVars, schedVars>>

\* Parse: no time zone in front
ParseNoZone ==
    /\ ppc = "Parse"
    /\ Len(spec) # 0
    /\ ~(HasPrefix(spec, TZ) \/ HasPrefix(spec, CRONTZ))
    /\ ppc' = "body"
    /\ UNCHANGED <<parser, input, spec, loc, perr, psched, addID>>
    /\ UNCHANGED <<engineVars, chainVars, schedVars>>

\* Parse: the time zone in front, "spec[eq+1 : i]" and "spec[i:]"; the slice
\* expression panics when its bounds are out of range
ParseZone ==
    /\ ppc = "Parse"
    /\ HasPrefix(spec, TZ) \/ HasPrefix(spec, CRONTZ)
    /\ LET i  == Index(spec, " ")
           eq == Index(spec, "=")
       IN  IF ~SliceInRange(spec, eq + 1, i)
           THEN /\ ppc' = "panicked"
                /\ UNCHANGED <<spec, loc, perr>>
           ELSE \E err \in LoadLocation(Slice(spec, eq + 1, i)) :
                IF err # "nil"
                THEN /\ perr' = "provided bad location"
                     /\ ppc' = "return"
                     /\ UNCHANGED <<spec, loc>>
                ELSE /\ loc' = Slice(spec, eq + 1, i)
                     /\ spec' = TrimSpace(Slice(spec, i, Len(spec)))
                     /\ ppc' = "body"
                     /\ UNCHANGED perr
    /\ UNCHANGED <<parser, input, psched, addID>>
    /\ UNCHANGED <<engineVars, chainVars, schedVars>>

\* "return schedule, err"
ParseReturns(r) ==
    /\ perr' = r.err
    /\ psched' = IF r.err = "nil" THEN r.val ELSE NoSchedule

\* Parse: a named schedule
ParseDescriptor ==
    /\ ppc = "body"
    /\ HasPrefix(spec, <<"@">>)
    /\ ParseReturns(IF "Descriptor" \notin parser
                    THEN Err("parser does not accept descriptors")
                    ELSE parseDescriptor(spec))
    /\ ppc' = "return"
    /\ UNCHANGED <<parser, input, spec, loc, addID>>
    /\ UNCHANGED <<engineVars, chainVars, schedVars>>

\* Parse: the fields
ParseSpec ==
    /\ ppc = "body"
    /\ ~HasPrefix(spec, <<"@">>)
    /\ ParseReturns(ParseFields(spec, parser))
    /\ ppc' = "return"
    /\ UNCHANGED <<parser, input, spec, loc, addID>>
    /\ UNCHANGED <<engineVars, chainVars, schedVars>>

\* AddJob: "if err != nil { return 0, err }"
AddJobError ==
    /\ ppc = "return"
    /\ perr # "nil"
    /\ addID' = 0
    /\ ppc' = "returned"
    /\ UNCHANGED <<parser, input, spec, loc, perr, psched>>
    /\ UNCHANGED <<engineVars, chainVars, schedVars>>

\* AddJob: "return c.Schedule(schedule, cmd), nil" on the stopped engine
AddJobSchedule ==
    /\ ppc = "return"
    /\ perr = "nil"
    /\ nextID < MaxID
    /\ ~running
    /\ runningMu = Free
    /\ nextID' = nextID + 1
    /\ issued' = Append(issued, EntryIDOf(nextID))
    /\ entries' = Append(entries, NewEntry(EntryIDOf(nextID), psched))
    /\ returned' = returned \cup {EntryIDOf(nextID)}
    /\ addID' = EntryIDOf(nextID)
    /\ ppc' = "returned"
    /\ UNCHANGED <<running, runningMu, pc, arg, loops, clock, jobWaiter, stops,
                   reply, removed, lastDispatch>>
    /\ UNCHANGED <<parser, input, spec, loc, perr, psched>>
    /\ UNCHANGED <<chainVars, schedVars, held>>

InitParse ==
    /\ EngineInit
    /\ ChainUnused
    /\ SchedUnused
    /\ parser \in Parsers
    /\ input = <<>>
    /\ spec = <<>>
    /\ loc = Local
    /\ perr = "nil"
    /\ psched = NoSchedule
    /\ ppc = "ready"
    /\ addID = 0

NextParse ==
    \/ \E s \in Inputs : AddJobCall(s)
    \/ ParseEmpty
    \/ ParseNoZone
    \/ ParseZone
    \/ ParseDescriptor
    \/ ParseSpec
    \/ AddJobError
    \/ AddJobSchedule

SpecParse == InitParse /\ [][NextParse]_vars

\* ================================================================ claims
\* a loop that is reading or writing c.entries or an entry's Next/Prev: from
\* its launch to its first wait, and from a receipt in the select to the end
\* of that case
LoopAccesses(l) == Loop(l).pc \in {"start", "wake", "add", "remove", "snapshot"}

\* a caller reads or mutates c.entries itself
DirectAccess ==
    \E p \in Procs :
        \/ \E s \in Scheds : ScheduleDirect(p, s)
        \/ \E id \in 1..MaxID : RemoveDirect(p, id)
        \/ EntriesDirect(p)

\* C1: the entry collection is never accessed by two contexts at once: a
\* caller accesses it directly only with the engine stopped, and then no
\* loop (not the one that just took the stop signal, not one just launched)
\* is reading or writing it; and no two loops access it together.
C1_NoConcurrentAccess ==
    /\ [][DirectAccess => (~running /\ \A l \in LoopIDs : ~LoopAccesses(l))]_vars
    /\ [](\A p \in Procs : (pc[p] = "entries_wait" /\ ~running) =>
              (runningMu = p /\ \A l \in LoopIDs : ~LoopAccesses(l)))
    /\ [](Cardinality({l \in LoopIDs : LoopAccesses(l)}) <= 1)

\* C1 witness: a caller holds the lock with a directly taken snapshot while
\* the loop that took the stop signal has not returned yet
C1_Witness ==
    /\ ~running
    /\ \E l \in LoopIDs : Loop(l).pc = "stopping"
    /\ \E p \in Procs : pc[p] = "entries_wait" /\ reply.full /\ Len(reply.val) >= 1

\* C2: a snapshot returned by Entries holds exactly the IDs returned by the
\* Schedule calls that have returned (less those removed), each once; so N
\* concurrent Schedule calls on a running engine show as N more entries.
C2_SnapshotHasEveryScheduled ==
    \A p \in Procs :
        (pc[p] = "entries_wait" /\ reply.full) =>
            /\ IDs(reply.val) = returned \ removed
            /\ Cardinality(IDs(reply.val)) = Len(reply.val)

\* C2 witness: a snapshot served by the running loop with two entries of the
\* same schedule and different Next, none dispatched yet: they were not both
\* there when the loop started, so the add channel carried one at least
C2_Witness ==
    /\ running
    /\ \E p \in Procs : pc[p] = "entries_wait" /\ reply.full /\ Len(reply.val) = 2
    /\ entries[1].sched = entries[2].sched /\ entries[1].sched # Never
    /\ entries[1].next # entries[2].next
    /\ IsZero(entries[1].prev) /\ IsZero(entries[2].prev)
    /\ removed = {}

\* C3: the k-th ID allocation of an engine yields k: IDs start at 1, grow by
\* one, are never 0 and never reused, also after Remove and Stop/Start.
C3_IDsCountAllocations ==
    /\ Len(issued) = nextID
    /\ \A k \in 1..Len(issued) : issued[k] = k
    /\ \A i \in 1..Len(entries) : entries[i].id \in 1..nextID
    /\ \A p \in Procs : pc[p] = "schedule" => arg[p].id = nextID

\* C3 witness: ID 2 is being allocated after ID 1 was removed and the engine
\* was stopped and started again
C3_Witness ==
    /\ 1 \in removed
    /\ Len(loops) >= 2
    /\ \E p \in Procs : pc[p] = "schedule" /\ arg[p].id = 2

\* C4: the signal of a Stop call is never ready while a runnable dispatched
\* before that call is still executing.
C4_ReadyOnlyAfterDrain ==
    \A k \in 1..Len(stops) : stops[k].ready => stops[k].pre = {}

\* C4 witness: two Stop calls have returned, each with a runnable in flight,
\* and neither signal is ready
C4_Witness ==
    /\ Len(stops) >= 2
    /\ \A k \in 1..Len(stops) : ~stops[k].ready /\ stops[k].pre # {}

\* C5: once every runnable dispatched before a Stop call has finished, its
\* signal can become ready: nothing dispatched later holds it back.
C5_ReadyIndependentOfLaterJobs ==
    \A k \in 1..Len(stops) :
        (~stops[k].ready /\ stops[k].pre = {}) => WaitReturns(jobWaiter)

\* C6: while the engine is stopped (from the return of Stop to the next
\* Start or Run) no runnable is dispatched, and stopping ends no runnable.
C6_NoDispatchWhileStopped ==
    /\ [][(jobWaiter' \ jobWaiter # {}) => (running /\ running')]_vars
    /\ [][(running /\ ~running') => jobWaiter' = jobWaiter]_vars

\* C6 witness: the engine is stopped, an entry's deadline has passed, and a
\* runnable dispatched before the Stop is still executing
C6_Witness ==
    /\ ~running
    /\ \E i \in 1..Len(entries) : ~IsZero(entries[i].next) /\ entries[i].next <= clock
    /\ \E k \in 1..Len(stops) : stops[k].pre # {}

\* a loop that has not taken a stop signal
LoopActive(l) == Loop(l).pc \notin {"stopping", "done"}

\* C7: Start or Run on a running engine launches no loop and changes nothing;
\* each stopped -> running transition launches exactly one loop; at most one
\* loop is in its sort/wait/dispatch phase.
C7_OneLoop ==
    /\ [][\A p \in Procs : (pc[p] \in {"start", "run"} /\ pc'[p] # pc[p] /\ running) =>
            UNCHANGED <<entries, running, nextID, loops, jobWaiter, stops, reply>>]_vars
    /\ [][(~running /\ running') =>
            (Len(loops') = Len(loops) + 1 /\ loops'[Len(loops')].pc = "start")]_vars
    /\ [][Len(loops') # Len(loops) => (~running /\ running')]_vars
    /\ [](Cardinality({l \in LoopIDs : LoopActive(l)}) <= 1)

\* C7 witness: a Start call is inside its critical section on an engine that
\* Run restarted while the previous loop has not returned yet
C7_Witness ==
    /\ running
    /\ Len(loops) = 2
    /\ Loop(1).pc = "stopping"
    /\ \E p, q \in Procs : pc[p] = "start" /\ pc[q] = "in_run"

\* C8: an entry whose Remove has returned is never dispatched again, and
\* removing it ends none of its runnables.
C8_RemovedNeverDispatched ==
    /\ [][\A j \in jobWaiter' \ jobWaiter : j[1] \notin removed]_vars
    /\ [][removed' # removed => jobWaiter' = jobWaiter]_vars

\* C8 witness: Remove has returned for an entry that is due (its timer has
\* fired) and has a runnable in flight; the loop is about to unlink it
C8_Witness ==
    \E l \in LoopIDs :
        /\ Loop(l).pc = "remove"
        /\ Loop(l).msg.id \in removed
        /\ \E i \in 1..Len(entries) :
            /\ entries[i].id = Loop(l).msg.id
            /\ ~IsZero(entries[i].next) /\ entries[i].next <= clock
            /\ \E j \in jobWaiter : j[1] = entries[i].id

EntryOf(es, id) == es[CHOOSE i \in 1..Len(es) : es[i].id = id]

\* the entries due at a wake-up with instant now
DueAt(es, now) == {i \in 1..Len(es) : ~IsZero(es[i].next) /\ es[i].next <= now}

\* C9: a timer wake-up with instant now dispatches exactly once every entry
\* whose Next is non-zero and not after now, in ascending order of Next, and
\* no other; each gets Prev = the Next that fired and Next = Schedule.Next(now).
C9_WakeDispatchesDue ==
    [][\A l \in LoopIDs : (Loop(l).pc = "wake" /\ loops'[l].pc = "select") =>
        LET now == Loop(l).now
            due == DueAt(entries, now)
            d   == lastDispatch'
        IN  /\ Len(d) = Cardinality(due)
            /\ {d[i] : i \in 1..Len(d)} = {entries[i].id : i \in due}
            /\ \A i, j \in 1..Len(d) :
                  i < j => EntryOf(entries, d[i]).next <= EntryOf(entries, d[j]).next
            /\ jobWaiter' = jobWaiter \cup {<<entries[i].id, entries[i].next>> : i \in due}
            /\ IDs(entries') = IDs(entries) /\ Len(entries') = Len(entries)
            /\ \A i \in 1..Len(entries) :
                  LET e == entries[i]
                      f == EntryOf(entries', e.id)
                  IN  IF i \in due
                      THEN f = [e EXCEPT !.prev = e.next, !.next = ScheduleNext(e.sched, now)]
                      ELSE f = e
    ]_vars

\* C9 witness: one wake-up has dispatched two entries whose Next differed
C9_Witness ==
    /\ Len(lastDispatch) = 2
    /\ Len(entries) = 2
    /\ IDs(entries) = {lastDispatch[1], lastDispatch[2]}
    /\ ~IsZero(entries[1].prev) /\ ~IsZero(entries[2].prev)
    /\ EntryOf(entries, lastDispatch[1]).prev < EntryOf(entries, lastDispatch[2]).prev

Pos(es, id) == CHOOSE i \in 1..Len(es) : es[i].id = id

\* C10: the re-sort keeps the relative position of two entries whose Next
\* are equal (or both zero).
C10_SortIsStable ==
    [][\A i, j \in 1..Len(entries) :
        (/\ i < j
         /\ entries[i].id \in IDs(entries') /\ entries[j].id \in IDs(entries')
         /\ EntryOf(entries', entries[i].id).next = EntryOf(entries', entries[j].id).next)
        => Pos(entries', entries[i].id) < Pos(entries', entries[j].id)
    ]_vars

\* C11: a runnable that panics while dispatched, on the engine New builds,
\* leaves the process alive and every loop where it was, and ends no other
\* runnable in flight.
C11_FaultLeavesLoopRunning ==
    [][\A j \in jobWaiter :
          JobFault(j) => (Alive' /\ loops' = loops /\ jobWaiter' = jobWaiter \ {j})]_vars

\* d1(d2(...dn(r))): the nesting the decorator list stands for
RECURSIVE Nest(_, _)
Nest(ws, j) == IF ws = <<>> THEN j ELSE Wrap(Head(ws), Nest(Tail(ws), j))

\* the frames an invocation has entered, and those it has left, in order
Enters(tr) == SelectSeq(tr, LAMBDA e : e.ev = "enter")
Exits(tr) == SelectSeq(tr, LAMBDA e : e.ev = "exit")

\* C12: Then(r) of the chain of d1..dn is d1(d2(...dn(r))), r itself for the
\* empty list; an invocation enters the frames in list order, d1 first and r
\* innermost, and leaves them in the reverse order.
C12_ThenNestsInListOrder ==
    /\ job # <<>> => job = Nest(wrappers, <<Base>>)
    /\ (job # <<>> /\ wrappers = <<>>) => job = <<Base>>
    /\ \A c \in Ctxs :
        LET ent == Enters(ctx[c].trace)
            ext == Exits(ctx[c].trace)
        IN  /\ Len(ext) <= Len(ent)
            /\ \A k \in 1..Len(ent) :
                  /\ ent[k].at = k
                  /\ job[k] = (wrappers \o <<Base>>)[k]
            /\ \A k \in 1..Len(ext) : ext[k].at = Len(ent) - k + 1

\* C12 witness: an invocation of a chain of two different decorators has
\* entered both and the runnable, has left all three and is about to return
C12_Witness ==
    /\ Len(wrappers) = 2
    /\ wrappers[1] # wrappers[2]
    /\ \E c \in Ctxs :
        /\ ctx[c].pc = "up" /\ ctx[c].depth = 0
        /\ Len(Enters(ctx[c].trace)) = 3
        /\ Len(Exits(ctx[c].trace)) = 3

\* how many events of one kind a trace holds for frame i
Count(tr, ev, i, hows) ==
    Cardinality({k \in 1..Len(tr) : tr[k].ev = ev /\ tr[k].at = i /\ tr[k].how \in hows})

\* C13: a Recover frame never ends by a panic, and once it has ended it has
\* called logger.Error exactly once if the job it wraps panicked, and not at
\* all otherwise; this holds of every invocation, also those after a fault.
C13_RecoverReportsOnce ==
    \A c \in Ctxs : \A i \in 1..Len(job) :
        job[i] = "Recover" =>
            LET tr == ctx[c].trace
            IN  /\ Count(tr, "exit", i, {"panic"}) = 0
                /\ Count(tr, "exit", i, {"up"}) = 1 =>
                      Count(tr, "error", i, Faults \cup {"PanicNilError"}) =
                          Count(tr, "exit", i + 1, {"panic"})

\* the SkipIfStillRunning frames of the job
SkipFrames == {i \in 1..Len(job) : job[i] = "SkipIfStillRunning"}

\* C14: of the goroutines invoking a SkipIfStillRunning frame at most one is
\* past its select at any time; an invocation that reaches the select while
\* another is past it leaves the frame in that very step without entering
\* the wrapped job, is never made to wait, and does not run it later.
C14_SkipDropsOverlap ==
    /\ [](\A i \in SkipFrames : Cardinality({c \in Ctxs : Active(c, i)}) <= 1)
    /\ [][\A c \in Ctxs : \A i \in SkipFrames :
            (/\ ctx[c].pc = "down" /\ ctx[c].depth = i
             /\ ctx'[c] # ctx[c]
             /\ \E d \in Ctxs \ {c} : Active(d, i))
            => (/\ ctx'[c].pc = "up" /\ ctx'[c].depth = i - 1
                /\ Count(ctx'[c].trace, "enter", i + 1, {"call"}) = 0)]_vars
    /\ [](\A c \in Ctxs : \A i \in SkipFrames :
            (ctx[c].pc = "down" /\ ctx[c].depth = i) => ENABLED SkipSelect(c))
    /\ [](\A c \in Ctxs : \A i \in SkipFrames :
            Count(ctx[c].trace, "info", i, {"skip"}) = 1 =>
                Count(ctx[c].trace, "enter", i + 1, {"call"}) = 0)

\* C14 witness: one goroutine executes the runnable under SkipIfStillRunning
\* while another has come, was turned away and is about to return
C14_Witness ==
    \E i \in SkipFrames : \E c, d \in Ctxs :
        /\ ctx[c].pc = "run" /\ Active(c, i)
        /\ ctx[d].pc = "up" /\ ctx[d].depth = 0
        /\ Count(ctx[d].trace, "info", i, {"skip"}) = 1

\* the DelayIfStillRunning frames of a job
DelayFrames(j) == {i \in 1..Len(j) : j[i] = "DelayIfStillRunning"}

\* C15: of the goroutines invoking a DelayIfStillRunning frame at most one is
\* inside it at any time; every invocation that reaches the frame gets the
\* mutex in the end and calls the wrapped job, also after an execution that
\* ended by a panic; a frame that has ended has called the wrapped job once.
C15_DelayRunsEveryInvocation ==
    /\ [](\A i \in DelayFrames(job) : Cardinality({c \in Ctxs : Active(c, i)}) <= 1)
    /\ [](\A c \in Ctxs : \A i \in DelayFrames(job) :
            /\ Count(ctx[c].trace, "enter", i + 1, {"call"}) <= 1
            /\ Count(ctx[c].trace, "exit", i, {"up", "panic"}) = 1 =>
                  Count(ctx[c].trace, "enter", i + 1, {"call"}) = 1)
    /\ \A c \in Ctxs : \A i \in Frames :
            (i \in DelayFrames(job) /\ ctx[c].pc = "down" /\ ctx[c].depth = i)
                ~> (ctx[c].pc = "down" /\ ctx[c].depth = i + 1)

\* C15 witness: a goroutine waits for the mutex of a DelayIfStillRunning
\* frame while the execution that holds it has ended by a panic, which has
\* reached the frame and not yet run its deferred Unlock
C15_Witness ==
    \E i \in DelayFrames(job) : \E c, d \in Ctxs :
        /\ ctx[c].pc = "panic" /\ ctx[c].depth = i /\ mu[i] = c
        /\ ctx[d].pc = "down" /\ ctx[d].depth = i

\* the start of the first whole second after u
NextWholeSecond(u) == AddSecond([u EXCEPT !.ns = 0])

\* C16: Next(t) is the zero instant or is after t. Of a SpecSchedule a
\* non-zero result is not before the next whole second after t. Of Every(d),
\* whatever d, the delay is a whole number k >= 1 of seconds and the result
\* is t less its sub-second part plus k seconds: on a whole second, after t.
C16_NextIsLater ==
    label = "done" =>
        /\ tcur = ZeroInstant \/ Before(instant, tcur)
        /\ schedule.type = "spec" =>
              (tcur = ZeroInstant \/ ~Before(tcur, NextWholeSecond(instant)))
        /\ schedule.type = "every" =>
              /\ ~DurLess(schedule.Delay, Quarters(Second))
              /\ WholeSeconds(schedule.Delay) = schedule.Delay
              /\ tcur = AddSeconds([instant EXCEPT !.ns = 0], Ticks(schedule.Delay) \div Second)
              /\ tcur.ns = 0
              /\ tcur # ZeroInstant

\* C16 witness: Next of Every(0) has returned for an instant off the whole
\* second in the last second of a year
C16_Witness ==
    /\ label = "done"
    /\ schedule = Every(Quarters(0))
    /\ instant.ns # 0
    /\ instant.mo = 12 /\ instant.d = 31 /\ instant.h = 23 /\ instant.mi = 59 /\ instant.s = 59

\* the day rule of the claim: both fields when either carries the star bit,
\* either field otherwise
DayRule(sch, u) ==
    IF starBit \in sch.Dom \/ starBit \in sch.Dow
    THEN u.d \in sch.Dom /\ Weekday(u) \in sch.Dow
    ELSE u.d \in sch.Dom \/ Weekday(u) \in sch.Dow

\* the whole-second instant u satisfies every field of the schedule
Satisfies(sch, u) ==
    /\ u.ns = 0
    /\ u.s \in sch.Second /\ u.mi \in sch.Minute /\ u.h \in sch.Hour
    /\ u.mo \in sch.Month
    /\ DayRule(sch, u)

\* the second of the day
TodNum(u) == u.h * 3600 + u.mi * 60 + u.s

SameDate(a, b) == a.y = b.y /\ a.mo = b.mo /\ a.d = b.d

\* a permitted time of day lies strictly between the seconds lo and hi
TodBetween(sch, lo, hi) ==
    /\ lo + 1 < hi
    /\ \E h \in sch.Hour \cap (0..23) : \E mi \in sch.Minute \cap (0..59) :
         \E s \in sch.Second \cap (0..59) :
            lo < h * 3600 + mi * 60 + s /\ h * 3600 + mi * 60 + s < hi

\* some whole-second instant v with a < v < b satisfies the schedule, b a
\* whole second
SatisfiedBetween(sch, a, b) ==
    \E y \in a.y..b.y : \E mo \in sch.Month \cap (1..12) : \E d \in 1..DaysIn(y, mo) :
        LET day == Instant(y, mo, d, 0, 0, 0, 0)
        IN  /\ DayRule(sch, day)
            /\ ~Before(day, StartOfDay(a))
            /\ ~Before(StartOfDay(b), day)
            /\ TodBetween(sch, IF SameDate(day, a) THEN TodNum(a) ELSE 0 - 1,
                                IF SameDate(day, b) THEN TodNum(b) ELSE 86400)

\* C17: a non-zero result of SpecSchedule.Next(t) is a whole second after t
\* that satisfies every field and the day rule, and no whole second between
\* t and it does.
C17_NextIsEarliest ==
    (label = "done" /\ schedule.type = "spec" /\ tcur # ZeroInstant) =>
        /\ Satisfies(schedule, tcur)
        /\ Before(instant, tcur)
        /\ ~SatisfiedBetween(schedule, instant, tcur)

\* C17 witness: "the 1st or a Sunday" asked in the last second of 2096 has
\* given an instant of 2097, found after the fields were zeroed and the
\* search restarted
C17_Witness ==
    /\ label = "done"
    /\ schedule.type = "spec"
    /\ schedule.Dom = {1} /\ schedule.Dow = {0}
    /\ added
    /\ instant.y = 2096 /\ tcur.y = 2097

\* the first instant after the years y .. y + HorizonYears
HorizonEnd(y) == Instant(y + HorizonYears + 1, 1, 1, 0, 0, 0, 0)

\* the search is between two tests of a loop of SpecSchedule.Next
Searching == label \in {"wrap", "month", "day", "hour", "minute", "second"}

\* C18: SpecSchedule.Next terminates - the instant of the search never passes
\* the year after yearLimit and every step of the search either advances it
\* or leaves the loop it is in - and its result is the zero instant exactly
\* when no instant of the 5 calendar years from the year of t satisfies the
\* schedule.
C18_ZeroIffNoneWithinFiveYearsOfInput ==
    /\ [](Searching => tcur.y <= yearLimit + 1)
    /\ [][Searching => (Before(tcur, tcur') \/ label' # label)]_vars
    /\ []((label = "done" /\ schedule.type = "spec") =>
            (tcur = ZeroInstant <=>
                ~SatisfiedBetween(schedule, instant, HorizonEnd(instant.y))))

\* what the code does: the search always ends, and the five years count from
\* the year of t rounded up to the next whole second
C18_SearchEnds ==
    /\ [](Searching => tcur.y <= yearLimit + 1)
    /\ [][Searching => (Before(tcur, tcur') \/ label' # label)]_vars

C18_ZeroIffNoneWithinFiveYearsOfRounded ==
    (label = "done" /\ schedule.type = "spec") =>
        (tcur = ZeroInstant <=>
            ~SatisfiedBetween(schedule, instant,
                              HorizonEnd(NextWholeSecond(instant).y)))

\* C19: Parse returns a schedule or an error and never panics, and on an
\* error AddJob returns 0 and leaves c.entries and c.nextID as they were.
C19_ParseNeverPanics ==
    /\ [](ppc # "panicked")
    /\ [](ppc \in {"return", "returned"} => ((perr = "nil") <=> (psched # NoSchedule)))
    /\ [][AddJobError => (addID' = 0 /\ entries' = entries /\ nextID' = nextID)]_vars

\* what the code does apart from the slice of the time zone: every other
\* call returns a schedule or an error, and an error changes nothing
C19_ErrorsLeaveEngine ==
    /\ [](ppc \in {"return", "returned"} => ((perr = "nil") <=> (psched # NoSchedule)))
    /\ [][AddJobError => (addID' = 0 /\ entries' = entries /\ nextID' = nextID)]_vars

\* the list v holds one element for each entry of es, in order, with the
\* same ID, Next and Prev
SameEntries(v, es) ==
    /\ Len(v) = Len(es)
    /\ \A i \in 1..Len(es) :
         v[i].id = es[i].id /\ v[i].next = es[i].next /\ v[i].prev = es[i].prev

\* C20: Entries, on the stopped engine and through the loop of the running
\* one, answers with one copy of each entry of c.entries at that moment and
\* leaves c.entries, every Next and Prev and the armed timer as they were;
\* the caller that writes to the list it was given changes nothing of the
\* engine.
C20_SnapshotIsACopy ==
    /\ [][\A p \in Procs : EntriesDirect(p) =>
            (SameEntries(reply'.val, entries) /\ entries' = entries /\ loops' = loops)]_vars
    /\ [][\A l \in LoopIDs : LoopSnapshot(l) =>
            /\ SameEntries(reply'.val, entries)
            /\ entries' = entries
            /\ Loop(l).pc = "snapshot" /\ loops'[l].pc = "select"
            /\ loops'[l].timer = Loop(l).timer
            /\ \A m \in LoopIDs \ {l} : loops'[m] = loops[m]]_vars
    /\ [][\A p \in Procs : EntriesKept(p) => (held' = reply.val /\ entries' = entries)]_vars
    /\ [][\A i \in 1..MaxID : CallerChanges(i) =>
            (entries' = entries /\ loops' = loops /\ reply' = reply)]_vars

\* C20 witness: on a running engine with an entry due at a later instant a
\* caller holds the list Entries gave it and has overwritten its first
\* element
C20_Witness ==
    /\ running
    /\ Len(held) > 0 /\ held[1].id = 0
    /\ Len(entries) = Len(held)
    /\ ~IsZero(entries[1].next)
    /\ \E l \in LoopIDs : Loop(l).pc = "select" /\ Loop(l).timer # Far

\* the entry's schedule finds no instant: Schedule.Next returns the zero time
Parked(e) == e.sched = Never

\* the entry has a concrete Next
Concrete(e) == ~IsZero(e.next)

\* the step takes the entry with this ID out of c.entries
Removes(id) ==
    \/ \E p \in Procs : RemoveDirect(p, id)
    \/ \E l \in LoopIDs : LoopRemove(l) /\ Loop(l).msg.id = id

\* no entry of the list has a concrete Next (the empty list included)
AllParked(es) == \A i \in 1..Len(es) : IsZero(es[i].next)

\* C21, never dispatched: an entry whose schedule finds no instant has zero
\* Next and zero Prev, no runnable of it is in flight, and a wake-up's
\* dispatch loop stops before it.
C21_NeverDispatched ==
    /\ [](\A i \in 1..Len(entries) : Parked(entries[i]) =>
            /\ IsZero(entries[i].next) /\ IsZero(entries[i].prev)
            /\ \A j \in jobWaiter : j[1] # entries[i].id)
    /\ [][\A l \in LoopIDs : LoopWake(l) =>
            \A i \in 1..Len(entries) : Parked(entries[i]) =>
                /\ i > DueCount(entries, Loop(l).now)
                /\ \A k \in 1..Len(lastDispatch') : lastDispatch'[k] # entries[i].id]_vars

\* C21, stays until removed: while the process lives, a step that is not the
\* removal of a parked entry leaves it in c.entries, and every snapshot holds it.
C21_StaysUntilRemoved ==
    /\ [][\A i \in 1..Len(entries) : (Parked(entries[i]) /\ Alive') =>
            \/ \E k \in 1..Len(entries') : entries'[k] = entries[i]
            \/ Removes(entries[i].id)]_vars
    /\ [][\A i \in 1..Len(entries) :
            (Parked(entries[i]) /\ ((\E l \in LoopIDs : LoopSnapshot(l)) \/ (\E p \in Procs : EntriesDirect(p)))) =>
                \E k \in 1..Len(reply'.val) : reply'.val[k].id = entries[i].id
                                                /\ IsZero(reply'.val[k].next)]_vars

\* C21, ordered last: in c.entries no entry with zero Next stands before an
\* entry with a concrete Next.
C21_SortedLast ==
    [](\A i, j \in 1..Len(entries) :
          (i < j /\ IsZero(entries[i].next)) => IsZero(entries[j].next))

\* C21, no delay: a wake-up dispatches every entry whose concrete Next has
\* come, whatever parked entries the list holds, and a loop that waits while
\* an entry has a concrete Next has its timer armed for an instant.
C21_ConcreteNotDelayed ==
    /\ [][\A l \in LoopIDs : LoopWake(l) =>
            \A i \in 1..Len(entries) :
                (Concrete(entries[i]) /\ entries[i].next <= Loop(l).now) =>
                    \E k \in 1..Len(lastDispatch') : lastDispatch'[k] = entries[i].id]_vars
    /\ [](\A l \in LoopIDs :
            (Loop(l).pc = "select" /\ running /\ ~AllParked(entries)) => Loop(l).timer # Far)

\* C21, still serving: the loop that waits with nothing to wake up for takes
\* every add, remove, snapshot and stop request a caller holds out to it.
C21_StillServes ==
    [](\A l \in LoopIDs : (Loop(l).pc = "select" /\ AllParked(entries)) =>
          /\ Loop(l).timer = Far
          /\ \A p \in Procs :
               /\ pc[p] = "schedule" => ENABLED LoopRecvAdd(l, p)
               /\ pc[p] = "remove" => ENABLED LoopRecvRemove(l, p)
               /\ pc[p] = "entries" => ENABLED LoopRecvSnapshot(l, p)
               /\ pc[p] = "stop" => ENABLED LoopRecvStop(l, p))

\* C21: an entry whose schedule returned the zero time is never dispatched,
\* stays in the collection and in snapshots until it is removed, is ordered
\* after every entry with a concrete Next, and never keeps an entry with a
\* concrete deadline from being dispatched; with every entry parked, or no
\* entry, the loop still takes add, remove, snapshot and stop requests.
C21_ParkedEntries ==
    /\ C21_NeverDispatched
    /\ C21_StaysUntilRemoved
    /\ C21_SortedLast
    /\ C21_ConcreteNotDelayed
    /\ C21_StillServes

\* C21 witness: the running loop waits with its timer armed; a parked entry
\* stands last in c.entries, behind an entry that has been dispatched and has
\* its next deadline
C21_Witness ==
    /\ running /\ Alive
    /\ Len(entries) = 2
    /\ Parked(entries[2]) /\ IsZero(entries[2].next)
    /\ Concrete(entries[1]) /\ ~IsZero(entries[1].prev)
    /\ entries[2].id < entries[1].id
    /\ \E l \in LoopIDs : Loop(l).pc = "select" /\ Loop(l).timer # Far

\* the caller p is inside Schedule, Remove, Entries or Stop: it holds the
\* running lock and waits for the loop or is on its way out
InCall(p) == pc[p] \in {"schedule", "remove", "entries", "entries_wait", "stop", "stop_sent"}

\* C22: with the loop scheduled fairly, every caller inside Schedule, Remove,
\* Entries or Stop returns, however the calls, the timer wake-ups and
\* Start/Run/Stop interleave, and the running lock is released again every
\* time it is taken, so that no caller waits for it forever (the process
\* staying alive).
C22_CallsReturn ==
    /\ \A p \in Procs : InCall(p) ~> (pc[p] = "idle" \/ ~Alive)
    /\ (runningMu # Free) ~> (runningMu = Free)

\* C22 witness: right after Start or Run set the running flag on an engine
\* that was stopped before, and before the new loop has reached its select,
\* one caller waits in a control-channel handoff while the other caller is
\* still inside Run
C22_Witness ==
    /\ running /\ Alive
    /\ Len(stops) > 0
    /\ \E l \in LoopIDs : Loop(l).pc = "start"
    /\ \E p \in Procs : pc[p] \in {"schedule", "remove", "entries", "stop"}

\* the earliest concrete Next of the list
MinNext(es) ==
    LET c == {es[i].next : i \in {k \in 1..Len(es) : Concrete(es[k])}}
    IN  CHOOSE t \in c : \A u \in c : t <= u

\* the invocation l of run() is past the computation of every Next and has
\* not taken a stop signal
InLoop(l) == Loop(l).pc \in {"select", "wake", "add", "remove", "snapshot"}

\* the engine runs, its loop has the entry with this ID with Next = t, and
\* the instant t has come
DueNow(id, t) ==
    /\ running /\ Alive
    /\ \E l \in LoopIDs : InLoop(l)
    /\ \E i \in 1..Len(entries) : entries[i].id = id /\ entries[i].next = t
    /\ t <= clock

\* the entry with this ID has been dispatched for its Next = t
DispatchedFor(id, t) == \E i \in 1..Len(entries) : entries[i].id = id /\ entries[i].prev = t

\* the engine has not stayed running, or the entry has been removed
Ended(id) == ~running \/ ~Alive \/ id \notin IDs(entries)

\* the loop waits for a timer whose instant lies after the last instant
PastHorizon == \E l \in LoopIDs : Loop(l).pc = "select" /\ Loop(l).timer > FairTime

\* C23, eventually: while the engine stays running, an entry that is not
\* removed and whose concrete Next has come is dispatched for that Next,
\* whatever add, remove and snapshot requests come in between (as long as
\* the timer's instant is one that time reaches).
C23_DueIsDispatched ==
    \A id \in 1..MaxID : \A t \in 1..FairTime :
        DueNow(id, t) ~> (DispatchedFor(id, t) \/ Ended(id) \/ PastHorizon)

\* C23, never earlier: a wake-up dispatches an entry only with an instant
\* that is not before the entry's Next, and the instant has come.
C23_NeverEarlier ==
    /\ [][\A l \in LoopIDs : LoopWake(l) =>
            /\ Loop(l).now <= clock
            /\ \A k \in 1..Len(lastDispatch') :
                 LET e == EntryOf(entries, lastDispatch'[k])
                 IN  Concrete(e) /\ e.next <= Loop(l).now]_vars
    /\ [](\A j \in jobWaiter : j[2] <= clock)

\* C23, re-arming: the add and the remove case leave the timer armed for the
\* earliest concrete Next that remains, at once if that instant has come,
\* and unarmed if none remains.
C23_Rearmed ==
    [][\A l \in LoopIDs : (LoopAdd(l) \/ LoopRemove(l)) =>
          loops'[l].timer = IF AllParked(entries') THEN Far
                            ELSE Max(clock, MinNext(entries'))]_vars

\* C23: while the engine stays running, every entry with a non-zero Next that
\* is not removed is dispatched at a wake-up whose instant is not before that
\* Next, and at none before; an add or a remove re-arms the timer for the
\* earliest remaining deadline, a deadline that has passed by then is served
\* by the next wake-up, and no sequence of snapshot, add or remove requests
\* puts a due entry off forever.
C23_DispatchedInTime ==
    /\ C23_DueIsDispatched
    /\ C23_NeverEarlier
    /\ C23_Rearmed

\* C23 witness: an entry was dispatched for its Next while another entry
\* waits for its own, the timer armed
C23_Witness ==
    /\ running /\ Alive
    /\ \E i, k \in 1..Len(entries) :
          /\ ~IsZero(entries[i].prev)
          /\ Concrete(entries[k]) /\ IsZero(entries[k].prev)
    /\ \E l \in LoopIDs : Loop(l).pc = "select" /\ Loop(l).timer # Far

\* a Recover frame stands outside frame i: no panic of frame i leaves Run()
Contained(i) == \E k \in 1..(i - 1) : job[k] = "Recover"

\* C24, free after a return: the frame that leaves after j.Run() returned
\* leaves its guard free.
C24_FreeAfterReturn ==
    [][\A c \in Ctxs : \A i \in SkipFrames :
          (ctx[c].pc = "up" /\ ctx[c].depth = i /\ ctx'[c] # ctx[c]) => ch'[i] = 1]_vars

\* C24, free after a fault: under a Recover frame outside it, the guard is
\* taken only while some goroutine is inside the frame.
C24_FreeAfterFault ==
    [](\A i \in SkipFrames : (Contained(i) /\ ch[i] = 0) => \E c \in Ctxs : Active(c, i))

\* C24, runs when free: an invocation that reaches the select while no other
\* goroutine is inside the frame calls the wrapped job.
C24_RunsWhenNotInProgress ==
    [][\A c \in Ctxs : \A i \in SkipFrames :
          (/\ Contained(i)
           /\ ctx[c].pc = "down" /\ ctx[c].depth = i
           /\ ctx'[c] # ctx[c]
           /\ ~ \E d \in Ctxs \ {c} : Active(d, i))
          => (ctx'[c].pc = "down" /\ ctx'[c].depth = i + 1)]_vars

\* C24, independent guards: the guard of a frame changes only by a goroutine
\* at that frame.
C24_GuardsIndependent ==
    [][\A i \in Frames : ch'[i] # ch[i] =>
          (job # <<>> => (i \in SkipFrames /\ \E c \in Ctxs : ctx[c].depth = i /\ ctx'[c] # ctx[c]))]_vars

\* C24: under SkipIfStillRunning an invocation is dropped only while an
\* earlier one is still inside the frame: when an execution has ended, by a
\* return or by a panic that a Recover frame outside the guard stops, the
\* guard is free and the next invocation runs the wrapped job; each guard is
\* its own.
C24_SkipOnlyWhileRunning ==
    /\ C24_FreeAfterReturn
    /\ C24_FreeAfterFault
    /\ C24_RunsWhenNotInProgress
    /\ C24_GuardsIndependent
====
